---- MODULE Spec2Model ----
(***************************************************************************)
(* Native messaging host: length-prefixed JSON framing over stdio          *)
(* (host.go), the daily self-update check (update.go), the atomic          *)
(* replacement of the executable (download.go) and the update-manifest     *)
(* selection (updatecheck.go).                                             *)
(*                                                                         *)
(* Bytes are naturals 0..255.  Texts that the program parses or formats    *)
(* (JSON bodies, the .chk timestamp, version strings) are sequences of     *)
(* ASCII codes, so that every conversion is computed and not assumed.      *)
(* What the system may do to a call (a short Read, a failing Write, rename,*)
(* open or GET) is chosen in the action that makes the call.               *)
(***************************************************************************)
EXTENDS Integers, Sequences, FiniteSets, TLC

VARIABLES
    h,          \* the Host record: ByteOrder, AutoUpdate, Version, AppName
    given,      \* the Host value the caller built and called Init on
    pc,         \* position of the host process / of the call in progress
    reader,     \* bytes not yet consumed from the io.Reader given to OnMessage
    pending,    \* frames put into the reader and not yet met by a call, in arrival order
    v,          \* the caller-supplied value of OnMessage: [kind, val]
    err,        \* what the last OnMessage / PostMessage call returned
    call,       \* the last OnMessage call: the frame it met, the bytes it took,
                \* v before it and v after it
    writer,     \* the Write calls the last PostMessage made: [buf, n, err]
    files,      \* the file system next to the executable: exec, bak, chk
    umask,      \* the file mode creation mask of the host process
    now,        \* the wall clock, in ticks (TicksPerDay ticks make a local day)
    upd,        \* locals of the update check in progress (needUpdate, downloadLatest)
    trace,      \* the externally visible steps of the current run, in order
    prev,       \* what the previous update-check run on this file system did
    un          \* Uninstall: the platform built for, the manifest file, the
                \* registry value, and what the call did

vars == <<h, given, pc, reader, pending, v, err, call, writer,
          files, umask, now, upd, trace, prev, un>>

frameVars == <<reader, pending, v, err, call, writer>>
updVars == <<files, umask, now, upd, trace, prev>>

(***************************************************************************)
(* Bounds of the model.                                                    *)
(***************************************************************************)
MaxFrames == 2      \* frames queued in one reader
MaxChunk == 3       \* a Read of the reader returns 1..MaxChunk bytes, or all it has
MaxDay == 2         \* the clock runs over days 1..MaxDay
MaxRuns == 2        \* starts of the host on one file system
TicksPerDay == 2    \* clock ticks in one local calendar day
MaxUpdates == 2     \* update records of one application in a drawn manifest

\* e, evaluated once, handed to F
With(e, F(_)) == CHOOSE y \in {F(x) : x \in {e}} : TRUE

(***************************************************************************)
(* ASCII.                                                                  *)
(***************************************************************************)
Ch == [lbrace |-> 123, rbrace |-> 125, lbrack |-> 91, rbrack |-> 93,
       quote |-> 34, colon |-> 58, comma |-> 44, space |-> 32,
       zero |-> 48, nine |-> 57, dot |-> 46,
       a |-> 97, b |-> 98, x |-> 120]

TextNull == <<110, 117, 108, 108>>      \* null
TextTrue == <<116, 114, 117, 101>>      \* true
TextFalse == <<102, 97, 108, 115, 101>> \* false

IsDigit(c) == c >= Ch.zero /\ c <= Ch.nine

\* scanner.go isSpace: space, tab, CR, LF
IsSpace(c) == c \in {32, 9, 13, 10}

\* strconv.FormatInt(n, 10) for n >= 0
RECURSIVE FormatInt(_)
FormatInt(n) ==
    IF n < 10 THEN <<Ch.zero + n>>
    ELSE Append(FormatInt(n \div 10), Ch.zero + (n % 10))

\* the value of a run of decimal digits
RECURSIVE DigitsValue(_)
DigitsValue(s) ==
    IF s = <<>> THEN 0
    ELSE 10 * DigitsValue(SubSeq(s, 1, Len(s) - 1)) + (s[Len(s)] - Ch.zero)

AllDigits(s) == \A i \in 1..Len(s) : IsDigit(s[i])

\* bytewise order of two byte strings (the order json.Marshal sorts map keys in)
RECURSIVE LexLess(_, _)
LexLess(s, t) ==
    IF t = <<>> THEN FALSE
    ELSE IF s = <<>> THEN TRUE
    ELSE IF s[1] # t[1] THEN s[1] < t[1]
    ELSE LexLess(Tail(s), Tail(t))

(***************************************************************************)
(* JSON values, as encoding/json holds them behind interface{}:            *)
(*   [t |-> "null"], [t |-> "bool", b], [t |-> "num", n], [t |-> "str", s],*)
(*   [t |-> "arr", a |-> sequence], [t |-> "obj", o |-> key :> value].     *)
(***************************************************************************)
JNull == [t |-> "null"]
JBool(b) == [t |-> "bool", b |-> b]
JNum(n) == [t |-> "num", n |-> n]
JStr(s) == [t |-> "str", s |-> s]
JArr(a) == [t |-> "arr", a |-> a]
JObj(o) == [t |-> "obj", o |-> o]

\* json.Marshal(v): compact text, map keys in sorted order
RECURSIVE Marshal(_)
RECURSIVE MarshalElems(_)
RECURSIVE MarshalMembers(_, _)
Marshal(x) ==
    CASE x.t = "null" -> TextNull
      [] x.t = "bool" -> IF x.b THEN TextTrue ELSE TextFalse
      [] x.t = "num" -> FormatInt(x.n)
      [] x.t = "str" -> <<Ch.quote>> \o x.s \o <<Ch.quote>>
      [] x.t = "arr" -> <<Ch.lbrack>> \o MarshalElems(x.a) \o <<Ch.rbrack>>
      [] x.t = "obj" ->
            <<Ch.lbrace>> \o MarshalMembers(x.o, DOMAIN x.o) \o <<Ch.rbrace>>

MarshalElems(a) ==
    IF a = <<>> THEN <<>>
    ELSE IF Len(a) = 1 THEN Marshal(a[1])
    ELSE Marshal(a[1]) \o <<Ch.comma>> \o MarshalElems(Tail(a))

MarshalMembers(o, keys) ==
    IF keys = {} THEN <<>>
    ELSE With(CHOOSE k \in keys : \A j \in keys : j = k \/ LexLess(k, j), LAMBDA k :
            With(<<Ch.quote>> \o k \o <<Ch.quote, Ch.colon>> \o Marshal(o[k]), LAMBDA one :
                IF keys = {k} THEN one
                ELSE one \o <<Ch.comma>> \o MarshalMembers(o, keys \ {k})))

(***************************************************************************)
(* The JSON scanner the Decoder drives byte by byte (encoding/json         *)
(* scanner.go, reached from host.go:217).  A state is [step, ps, lit]: the *)
(* step function, the parse stack ("key", "val", "arr") and the rest of a  *)
(* literal being read.  The signal is "cont", "end" (scanEnd, one byte     *)
(* late), "endObj", "endArr" or "err".  Inputs of the model hold no sign,  *)
(* fraction, exponent or backslash escape.                                 *)
(***************************************************************************)
ScanInit == [step |-> "beginValue", ps |-> <<>>, lit |-> <<>>]

ScanErr(s) == [s |-> [s EXCEPT !.step = "error"], sig |-> "err"]
ScanTo(s, step) == [s |-> [s EXCEPT !.step = step], sig |-> "cont"]

PopParseState(s) ==
    LET ps == SubSeq(s.ps, 1, Len(s.ps) - 1)
    IN [s EXCEPT !.ps = ps, !.step = IF ps = <<>> THEN "endTop" ELSE "endValue"]

StateEndValue(s, c) ==
    LET n == Len(s.ps)
    IN IF n = 0 THEN [s |-> [s EXCEPT !.step = "endTop"], sig |-> "end"]
       ELSE IF IsSpace(c) THEN ScanTo(s, "endValue")
       ELSE IF s.ps[n] = "key" THEN
            IF c = Ch.colon
            THEN [s |-> [s EXCEPT !.ps[n] = "val", !.step = "beginValue"], sig |-> "cont"]
            ELSE ScanErr(s)
       ELSE IF s.ps[n] = "val" THEN
            IF c = Ch.comma
            THEN [s |-> [s EXCEPT !.ps[n] = "key", !.step = "beginString"], sig |-> "cont"]
            ELSE IF c = Ch.rbrace THEN [s |-> PopParseState(s), sig |-> "endObj"]
            ELSE ScanErr(s)
       ELSE IF c = Ch.comma THEN ScanTo(s, "beginValue")
       ELSE IF c = Ch.rbrack THEN [s |-> PopParseState(s), sig |-> "endArr"]
       ELSE ScanErr(s)

StateBeginValue(s, c) ==
    IF IsSpace(c) THEN [s |-> s, sig |-> "cont"]
    ELSE IF c = Ch.lbrace
    THEN [s |-> [s EXCEPT !.step = "beginStringOrEmpty", !.ps = Append(@, "key")],
          sig |-> "cont"]
    ELSE IF c = Ch.lbrack
    THEN [s |-> [s EXCEPT !.step = "beginValueOrEmpty", !.ps = Append(@, "arr")],
          sig |-> "cont"]
    ELSE IF c = Ch.quote THEN ScanTo(s, "inString")
    ELSE IF c = Ch.zero THEN ScanTo(s, "num0")
    ELSE IF IsDigit(c) THEN ScanTo(s, "num1")
    ELSE IF c = TextTrue[1]
    THEN [s |-> [s EXCEPT !.step = "lit", !.lit = Tail(TextTrue)], sig |-> "cont"]
    ELSE IF c = TextFalse[1]
    THEN [s |-> [s EXCEPT !.step = "lit", !.lit = Tail(TextFalse)], sig |-> "cont"]
    ELSE IF c = TextNull[1]
    THEN [s |-> [s EXCEPT !.step = "lit", !.lit = Tail(TextNull)], sig |-> "cont"]
    ELSE ScanErr(s)

StateBeginString(s, c) ==
    IF IsSpace(c) THEN [s |-> s, sig |-> "cont"]
    ELSE IF c = Ch.quote THEN ScanTo(s, "inString")
    ELSE ScanErr(s)

\* scanner.step(&scanner, c)
ScanStep(s, c) ==
    CASE s.step = "beginValue" -> StateBeginValue(s, c)
      [] s.step = "beginValueOrEmpty" ->
            IF IsSpace(c) THEN [s |-> s, sig |-> "cont"]
            ELSE IF c = Ch.rbrack THEN StateEndValue(s, c)
            ELSE StateBeginValue(s, c)
      [] s.step = "beginStringOrEmpty" ->
            IF IsSpace(c) THEN [s |-> s, sig |-> "cont"]
            ELSE IF c = Ch.rbrace
            THEN StateEndValue([s EXCEPT !.ps[Len(s.ps)] = "val"], c)
            ELSE StateBeginString(s, c)
      [] s.step = "beginString" -> StateBeginString(s, c)
      [] s.step = "inString" ->
            IF c = Ch.quote THEN ScanTo(s, "endValue")
            ELSE IF c < 32 THEN ScanErr(s)
            ELSE [s |-> s, sig |-> "cont"]
      [] s.step = "num1" ->
            IF IsDigit(c) THEN [s |-> s, sig |-> "cont"] ELSE StateEndValue(s, c)
      [] s.step = "num0" -> StateEndValue(s, c)
      [] s.step = "lit" ->
            IF c = s.lit[1]
            THEN [s |-> [s EXCEPT !.lit = Tail(@),
                                  !.step = IF Len(s.lit) = 1 THEN "endValue" ELSE "lit"],
                  sig |-> "cont"]
            ELSE ScanErr(s)
      [] s.step = "endValue" -> StateEndValue(s, c)
      [] s.step = "endTop" -> [s |-> s, sig |-> "end"]
      [] OTHER -> ScanErr(s)

(***************************************************************************)
(* Decoder.readValue and Decoder.refill (encoding/json stream.go), as      *)
(* json.NewDecoder(io.LimitReader(reader, length)).Decode drives them.     *)
(***************************************************************************)
\* the inner loop of readValue: scan buf from byte i on
RECURSIVE ScanBuf(_, _, _)
ScanBuf(s, buf, i) ==
    IF i > Len(buf) THEN [sig |-> "more", s |-> s, n |-> Len(buf), seen |-> Len(buf)]
    ELSE With(ScanStep(s, buf[i]), LAMBDA r :
            IF r.sig = "end" THEN [sig |-> "end", s |-> r.s, n |-> i - 1, seen |-> i]
            ELSE IF r.sig \in {"endObj", "endArr"}
                    /\ StateEndValue(r.s, Ch.space).sig = "end"
            THEN [sig |-> "end", s |-> r.s, n |-> i, seen |-> i]
            ELSE IF r.sig = "err" THEN [sig |-> "err", s |-> r.s, n |-> 0, seen |-> i]
            ELSE ScanBuf(r.s, buf, i + 1))

NonSpace(buf) == \E i \in 1..Len(buf) : ~IsSpace(buf[i])

\* Decoder.refill, as often as readValue asks for it: each refill is one Read
\* of the LimitedReader, and a Read of the underlying reader returns all it
\* has (chunk = 0) or at most chunk bytes.  The bytes buffered once the
\* scanner has seen `seen` of the `total` bytes the LimitedReader hands out.
Refilled(chunk, seen, total) ==
    IF chunk = 0 THEN total
    ELSE LET reads == (seen + chunk - 1) \div chunk
         IN IF reads * chunk > total THEN total ELSE reads * chunk

\* readValue: the scanner runs over what is buffered, the buffer is refilled
\* while the value is incomplete; N is what the LimitedReader may hand out,
\* rd the underlying reader.  res is "ok" with the n bytes of the value, or
\* the error; rd is what is left in the underlying reader.
ReadValue(N, rd, chunk) ==
    LET total == IF N < Len(rd) THEN N ELSE Len(rd)
    IN With(ScanBuf(ScanInit, SubSeq(rd, 1, total), 1), LAMBDA r :
        LET got == IF r.sig = "more" THEN total ELSE Refilled(chunk, r.seen, total)
            buf == SubSeq(rd, 1, got)
            rest == SubSeq(rd, got + 1, Len(rd))
        IN IF r.sig = "end" THEN [res |-> "ok", n |-> r.n, buf |-> buf, rd |-> rest]
           ELSE IF r.sig = "err"
           THEN [res |-> "SyntaxError", n |-> 0, buf |-> buf, rd |-> rest]
           ELSE IF ScanStep(r.s, Ch.space).sig = "end"
           THEN [res |-> "ok", n |-> total, buf |-> buf, rd |-> rest]
           ELSE IF NonSpace(buf)
           THEN [res |-> "ErrUnexpectedEOF", n |-> 0, buf |-> buf, rd |-> rest]
           ELSE [res |-> "EOF", n |-> 0, buf |-> buf, rd |-> rest])

(***************************************************************************)
(* decodeState.value on a text the scanner accepted (encoding/json         *)
(* decode.go): the value the text denotes; [v, i] with i the next byte.    *)
(***************************************************************************)
EmptyObj == [k \in {} |-> JNull]

RECURSIVE SkipSpace(_, _)
SkipSpace(b, i) ==
    IF i <= Len(b) /\ IsSpace(b[i]) THEN SkipSpace(b, i + 1) ELSE i

\* the index of the first byte from i on that satisfies no digit / is a quote
RECURSIVE DigitsEnd(_, _)
DigitsEnd(b, i) == IF i <= Len(b) /\ IsDigit(b[i]) THEN DigitsEnd(b, i + 1) ELSE i

RECURSIVE QuoteAt(_, _)
QuoteAt(b, i) == IF i <= Len(b) /\ b[i] # Ch.quote THEN QuoteAt(b, i + 1) ELSE i

RECURSIVE ParseValue(_, _)
RECURSIVE ParseElems(_, _, _)
RECURSIVE ParseMembers(_, _, _)
ParseValue(b, i0) ==
    With(SkipSpace(b, i0), LAMBDA i :
        CASE b[i] = Ch.lbrace ->
               With(SkipSpace(b, i + 1), LAMBDA j :
                   IF b[j] = Ch.rbrace THEN [v |-> JObj(EmptyObj), i |-> j + 1]
                   ELSE ParseMembers(b, j, EmptyObj))
          [] b[i] = Ch.lbrack ->
               With(SkipSpace(b, i + 1), LAMBDA j :
                   IF b[j] = Ch.rbrack THEN [v |-> JArr(<<>>), i |-> j + 1]
                   ELSE ParseElems(b, j, <<>>))
          [] b[i] = Ch.quote ->
               With(QuoteAt(b, i + 1), LAMBDA e :
                   [v |-> JStr(SubSeq(b, i + 1, e - 1)), i |-> e + 1])
          [] IsDigit(b[i]) ->
               With(IF b[i] = Ch.zero THEN i + 1 ELSE DigitsEnd(b, i), LAMBDA e :
                   [v |-> JNum(DigitsValue(SubSeq(b, i, e - 1))), i |-> e])
          [] b[i] = TextTrue[1] -> [v |-> JBool(TRUE), i |-> i + Len(TextTrue)]
          [] b[i] = TextFalse[1] -> [v |-> JBool(FALSE), i |-> i + Len(TextFalse)]
          [] OTHER -> [v |-> JNull, i |-> i + Len(TextNull)])

ParseElems(b, i, acc) ==
    With(ParseValue(b, i), LAMBDA r :
        With(SkipSpace(b, r.i), LAMBDA j :
            IF b[j] = Ch.comma THEN ParseElems(b, j + 1, Append(acc, r.v))
            ELSE [v |-> JArr(Append(acc, r.v)), i |-> j + 1]))

\* a later duplicate of a key replaces the earlier one
ParseMembers(b, i, acc) ==
    With(QuoteAt(b, i + 1), LAMBDA e :
        With(ParseValue(b, SkipSpace(b, e + 1) + 1), LAMBDA r :
            With(SkipSpace(b, r.i), LAMBDA j :
                With((SubSeq(b, i + 1, e - 1) :> r.v) @@ acc, LAMBDA o :
                    IF b[j] = Ch.comma THEN ParseMembers(b, SkipSpace(b, j + 1), o)
                    ELSE [v |-> JObj(o), i |-> j + 1]))))

\* decodeState.unmarshal into the caller-supplied value.  kind "any" is a
\* *interface{}, kind "H" a *host.H (map[string]interface{}): an object is
\* stored key by key into the map already there, null makes the map nil, any
\* other JSON value is an UnmarshalTypeError and leaves the map as it was.
Unmarshal(text, target) ==
    With(ParseValue(text, 1).v, LAMBDA x :
        IF target.kind = "any" THEN [v |-> [target EXCEPT !.val = x], err |-> "nil"]
        ELSE IF x.t = "obj"
        THEN [v |-> [target EXCEPT !.val =
                         IF target.val.t = "obj" THEN JObj(x.o @@ target.val.o) ELSE x],
              err |-> "nil"]
        ELSE IF x.t = "null" THEN [v |-> [target EXCEPT !.val = JNull], err |-> "nil"]
        ELSE [v |-> target, err |-> "UnmarshalTypeError"])

\* a defect Decode could have: the target reset before the text is scanned
DecodeResetsFirst(rd, length, target, chunk) ==
    With(ReadValue(length, rd, chunk), LAMBDA r :
        IF r.res = "ok"
        THEN With(Unmarshal(SubSeq(r.buf, 1, r.n), target), LAMBDA u :
                [rd |-> r.rd, v |-> u.v, err |-> u.err, eof |-> FALSE])
        ELSE [rd |-> r.rd, v |-> [target EXCEPT !.val = JNull], err |-> r.res,
              eof |-> FALSE])

\* json.NewDecoder(io.LimitReader(reader, length)).Decode(v)          host.go:217
Decode(rd, length, target, chunk) ==
    With(ReadValue(length, rd, chunk), LAMBDA r :
        IF r.res = "ok"
        THEN With(Unmarshal(SubSeq(r.buf, 1, r.n), target), LAMBDA u :
                [rd |-> r.rd, v |-> u.v, err |-> u.err, eof |-> FALSE])
        ELSE [rd |-> r.rd, v |-> target, err |-> r.res, eof |-> FALSE])


(***************************************************************************)
(* Frame headers: binary.ByteOrder over 4 bytes.                           *)
(***************************************************************************)
\* ByteOrder.PutUint32(header, uint32(length)): the low 32 bits of length
PutUint32(order, length) ==
    LET le == <<length % 256, (length \div 256) % 256,
                (length \div 65536) % 256, (length \div 16777216) % 256>>
    IN IF order = "LittleEndian" THEN le ELSE <<le[4], le[3], le[2], le[1]>>

\* ByteOrder.Uint32(bs)
Uint32(order, bs) ==
    IF order = "LittleEndian"
    THEN bs[1] + 256 * bs[2] + 65536 * bs[3] + 16777216 * bs[4]
    ELSE bs[4] + 256 * bs[3] + 65536 * bs[2] + 16777216 * bs[1]

(***************************************************************************)
(* host.go: readHeader, OnMessage, writeHeader, PostMessage.               *)
(***************************************************************************)
\* a defect readHeader could have: a header cut short taken for the end of
\* input
readHeaderShortIsEOF(order, rd) ==
    IF Len(rd) < 4 THEN [length |-> 0, err |-> "EOF", rd |-> <<>>]
    ELSE [length |-> Uint32(order, SubSeq(rd, 1, 4)), err |-> "nil",
          rd |-> SubSeq(rd, 5, Len(rd))]

\* readHeader: binary.Read fills 4 bytes with io.ReadFull.  An empty reader
\* is io.EOF (the end-of-input signal), 1 to 3 bytes are ErrUnexpectedEOF.
readHeader(order, rd) ==
    IF rd = <<>> THEN [length |-> 0, err |-> "EOF", rd |-> rd]
    ELSE IF Len(rd) < 4 THEN [length |-> 0, err |-> "ErrUnexpectedEOF", rd |-> <<>>]
    ELSE [length |-> Uint32(order, SubSeq(rd, 1, 4)), err |-> "nil",
          rd |-> SubSeq(rd, 5, Len(rd))]

\* a defect OnMessage could have: a zero length taken for the end of input
OnMessageResultEmptyIsEOF(order, rd, target, chunk) ==
    With(readHeader(order, rd), LAMBDA hd :
        IF hd.err # "nil"
        THEN [rd |-> hd.rd, v |-> target, err |-> hd.err, eof |-> (hd.err = "EOF")]
        ELSE IF hd.length = 0
        THEN [rd |-> hd.rd, v |-> target, err |-> "EOF", eof |-> TRUE]
        ELSE Decode(hd.rd, hd.length, target, chunk))

\* OnMessage(reader, v) up to the end-of-input branch: what it returns, what
\* it leaves in the reader and in v; eof when readHeader met io.EOF.
OnMessageResult(order, rd, target, chunk) ==
    With(readHeader(order, rd), LAMBDA hd :
        IF hd.err # "nil"
        THEN [rd |-> hd.rd, v |-> target, err |-> hd.err, eof |-> (hd.err = "EOF")]
        ELSE IF hd.length = 0
        THEN [rd |-> hd.rd, v |-> target, err |-> "nil", eof |-> FALSE]
        ELSE Decode(hd.rd, hd.length, target, chunk))


\* the outcomes of one Write call
WriteOutcomes == {"ok", "err", "part", "short"}

\* One writer.Write(buf) call whose outcome is w: "ok" takes all of buf,
\* "err" takes nothing and reports an error, "part" takes all but the last
\* byte and reports an error, "short" takes all but the last byte and
\* reports no error.
Write(buf, w) ==
    CASE w = "ok" -> [buf |-> buf, n |-> Len(buf), err |-> "nil"]
      [] w = "err" -> [buf |-> buf, n |-> 0, err |-> "write error"]
      [] w = "part" -> [buf |-> buf, n |-> Len(buf) - 1, err |-> "write error"]
      [] OTHER -> [buf |-> buf, n |-> Len(buf) - 1, err |-> "nil"]

\* a defect writeHeader could have: the header declares one byte too few
writeHeaderOffByOne(order, length, w) ==
    LET r == Write(PutUint32(order, length - 1), w)
    IN [call |-> r, err |-> r.err]

\* writeHeader: `if n, err := writer.Write(header); err != nil || n != len(header)
\* { return err }; return nil`
writeHeader(order, length, w) ==
    LET r == Write(PutUint32(order, length), w)
    IN [call |-> r, err |-> r.err]

Serializable(x) == x.t # "chan"

\* PostMessage(writer, v): the Write calls made and the error returned
PostMessageResult(order, x, hw, bw) ==
    IF ~Serializable(x) THEN [writes |-> <<>>, err |-> "UnsupportedTypeError"]
    ELSE LET body == Marshal(x)
             hd == writeHeader(order, Len(body), hw)
             bd == Write(body, bw)
         IN IF hd.err # "nil" THEN [writes |-> <<hd.call>>, err |-> hd.err]
            ELSE [writes |-> <<hd.call, bd>>, err |-> bd.err]

\* the bytes a sequence of Write calls put on the wire
RECURSIVE Accepted(_)
Accepted(ws) ==
    IF ws = <<>> THEN <<>>
    ELSE SubSeq(ws[1].buf, 1, ws[1].n) \o Accepted(Tail(ws))

(***************************************************************************)
(* The values and frames the model draws from.                             *)
(***************************************************************************)
KeyA == <<Ch.a>>
KeyB == <<Ch.b>>

Leaves == {JNull, JBool(TRUE), JBool(FALSE), JNum(0), JNum(7), JNum(120),
           JStr(<<>>), JStr(<<Ch.space, Ch.rbrace>>)}

Few == {JNull, JBool(TRUE), JNum(7), JStr(<<Ch.space, Ch.rbrace>>)}

Inner == Leaves \cup {JArr(<<>>), JArr(<<JNum(7)>>), JObj(EmptyObj),
                      JObj(KeyB :> JStr(<<Ch.x>>))}

\* every value PostMessage is given: scalars, arrays of up to two values,
\* objects over the keys a and b
Values ==
    Inner
    \cup {JArr(<<p, q>>) : p \in Few, q \in Inner}
    \cup {JObj(KeyA :> p) : p \in Inner}
    \cup {JObj((KeyA :> p) @@ (KeyB :> q)) : p \in Few, q \in Few}

\* a value json.Marshal refuses (a channel, as in TestHostPostMessage)
JChan == [t |-> "chan"]

\* the caller-supplied values: a fresh *interface{}, a fresh &H{}, and an H
\* that already holds a key
FreshAny == [kind |-> "any", val |-> JNull]
FreshH == [kind |-> "H", val |-> JObj(EmptyObj)]
UsedH == [kind |-> "H", val |-> JObj(KeyB :> JNum(7))]

NoFrame == [hdr |-> <<>>, body |-> <<>>, val |-> JNull, kind |-> "none"]

\* A frame as a peer puts it on the wire: header for the whole body; kind
\* says what the body is: "exact" the JSON text of val and nothing else,
\* "trail" that text followed by more bytes inside the frame, "empty" no body,
\* "bad" no JSON value.
Frame(order, body, val, kind) ==
    [hdr |-> PutUint32(order, Len(body)), body |-> body, val |-> val, kind |-> kind]

RawFrames(order) ==
    { Frame(order, <<>>, JNull, "empty"),
      Frame(order, <<Ch.lbrace, Ch.rbrace>>, JObj(EmptyObj), "exact"),
      Frame(order, <<Ch.lbrace, Ch.quote, Ch.a, Ch.quote, Ch.colon, 49, Ch.rbrace>>,
            JObj(KeyA :> JNum(1)), "exact"),
      Frame(order, <<49, 50>>, JNum(12), "exact"),
      Frame(order, <<Ch.lbrace, Ch.rbrace, Ch.space, Ch.space>>, JObj(EmptyObj), "trail"),
      Frame(order, <<Ch.lbrack, 49, Ch.rbrack, 10>>, JArr(<<JNum(1)>>), "trail"),
      Frame(order, <<Ch.space, Ch.lbrace, Ch.rbrace, Ch.x>>, JObj(EmptyObj), "trail"),
      Frame(order, <<Ch.lbrace, Ch.quote, Ch.a, Ch.quote, Ch.colon, Ch.quote, Ch.b,
                     Ch.rbrace>>, JNull, "bad"),
      Frame(order, <<Ch.lbrace, Ch.colon, Ch.quote, Ch.a, Ch.quote, Ch.rbrace>>,
            JNull, "bad") }

\* what is left of a stream whose peer went away inside a header
PartialHeader == [hdr |-> <<2, 0>>, body |-> <<>>, val |-> JNull, kind |-> "partial"]

\* the same with 1, 2 or 3 of the 4 header bytes
PartialHeaders ==
    {[PartialHeader EXCEPT !.hdr = SubSeq(<<2, 0, 0>>, 1, n)] : n \in 1..3}

\* what is left of a stream whose peer went away after a whole header: the
\* header declares the length of full, body is the part of it that arrived
CutFrame(order, full, n) ==
    [hdr |-> PutUint32(order, Len(full)), body |-> SubSeq(full, 1, n),
     val |-> JNull, kind |-> "cut"]

\* an object cut before its first byte and inside it, a number cut inside it
CutFrames(order) ==
    LET object == <<Ch.lbrace, Ch.quote, Ch.a, Ch.quote, Ch.colon, 49, Ch.rbrace>>
    IN {CutFrame(order, object, 0), CutFrame(order, object, 3),
        CutFrame(order, <<49, 50>>, 1)}

RECURSIVE Stream(_)
Stream(fs) ==
    IF fs = <<>> THEN <<>> ELSE fs[1].hdr \o fs[1].body \o Stream(Tail(fs))

RECURSIVE SeqsUpTo(_, _)
SeqsUpTo(S, n) ==
    IF n = 0 THEN {<<>>}
    ELSE LET shorter == SeqsUpTo(S, n - 1)
         IN shorter \cup {Append(q, e) : q \in {t \in shorter : Len(t) = n - 1}, e \in S}


(***************************************************************************)
(* update.go: the sidecar timestamp and the daily gate.                    *)
(* A file is [exists, content, mode]; the file system holds the            *)
(* executable (exec), its backup (bak) and the sidecar timestamp (chk).    *)
(***************************************************************************)
NoFile == [exists |-> FALSE, content |-> <<>>, mode |-> 0]
File(content, mode) == [exists |-> TRUE, content |-> content, mode |-> mode]

\* file modes, written in octal in the source
Perm == [exec |-> 493,      \* 0755, download.go:72
         chk |-> 420,       \* 0644, update.go:88
         owner |-> 448]     \* 0700

\* the umasks a host process runs under: 022 and 077
Umasks == {18, 63}

\* the mode open(2) gives a file it creates: perm &^ umask
RECURSIVE ClearBits(_, _)
ClearBits(perm, mask) ==
    IF perm = 0 THEN 0
    ELSE 2 * ClearBits(perm \div 2, mask \div 2)
         + (IF mask % 2 = 1 THEN 0 ELSE perm % 2)

\* strconv.ParseInt(string(buf), 10, 64) with its error dropped: 0 when buf
\* is not a decimal number
ParseInt(buf) == IF buf # <<>> /\ AllDigits(buf) THEN DigitsValue(buf) ELSE 0

\* a defect getCheckTimestamp could have: a sidecar that does not parse
\* taken for the first day of the clock
getCheckTimestampDefaultsToDayOne(fs) ==
    IF fs.chk.exists /\ fs.chk.content # <<>> /\ AllDigits(fs.chk.content)
    THEN DigitsValue(fs.chk.content)
    ELSE TicksPerDay

\* getCheckTimestamp: ioutil.ReadFile and ParseInt, both errors dropped
getCheckTimestamp(fs) ==
    ParseInt(IF fs.chk.exists THEN fs.chk.content ELSE <<>>)

\* time.Time.Date(): the local calendar day a tick falls in
Date(t) == t \div TicksPerDay

\* a defect isCheckedToday could have: comparing the instants, not the days
isCheckedThisInstant(fs, t) == getCheckTimestamp(fs) = t

\* isCheckedToday
isCheckedToday(fs, t) == Date(getCheckTimestamp(fs)) = Date(t)

\* a defect writeCheckTimestamp could have: reporting success, writing nothing
writeNoTimestamp(fs, t, w, mask) == fs

\* writeCheckTimestamp: ioutil.WriteFile(h.ExecName+".chk", timestamp, 0644).
\* w is what the file system does: "ok"; "openfail" (nothing changes);
\* "writefail" (the file was created or truncated and nothing written).
writeCheckTimestamp(fs, t, w, mask) ==
    LET mode == IF fs.chk.exists THEN fs.chk.mode ELSE ClearBits(Perm.chk, mask)
    IN CASE w = "ok" -> [fs EXCEPT !.chk = File(FormatInt(t), mode)]
         [] w = "writefail" -> [fs EXCEPT !.chk = File(<<>>, mode)]
         [] OTHER -> fs

(***************************************************************************)
(* Versions (github.com/hashicorp/go-version as update.go:64-73 uses it).  *)
(***************************************************************************)
\* the text before the first dot
RECURSIVE UpToDot(_)
UpToDot(s) ==
    IF s = <<>> \/ s[1] = Ch.dot THEN <<>> ELSE <<s[1]>> \o UpToDot(Tail(s))

\* the texts between the dots
RECURSIVE SplitDots(_)
SplitDots(s) ==
    With(UpToDot(s), LAMBDA first :
        IF Len(first) = Len(s) THEN <<first>>
        ELSE <<first>> \o SplitDots(SubSeq(s, Len(first) + 2, Len(s))))

\* version.NewVersion(s): [ok, segs]; at least one run of digits, runs
\* separated by dots, padded with zeros to three segments
NewVersion(s) ==
    With(SplitDots(s), LAMBDA parts :
        IF \E i \in 1..Len(parts) : parts[i] = <<>> \/ ~AllDigits(parts[i])
        THEN [ok |-> FALSE, segs |-> <<>>]
        ELSE [ok |-> TRUE,
              segs |-> [i \in 1..Len(parts) |-> DigitsValue(parts[i])]
                       \o [i \in 1..(3 - Len(parts)) |-> 0]])

\* Version.Compare on the segments: the first differing segment decides, a
\* missing segment counts as 0
Seg(segs, i) == IF i <= Len(segs) THEN segs[i] ELSE 0

RECURSIVE CompareFrom(_, _, _)
CompareFrom(a, b, i) ==
    IF i > Len(a) /\ i > Len(b) THEN 0
    ELSE IF Seg(a, i) < Seg(b, i) THEN -1
    ELSE IF Seg(a, i) > Seg(b, i) THEN 1
    ELSE CompareFrom(a, b, i + 1)

\* a defect the comparison could have: LessThanOrEqual in place of LessThan
LessThanOrEqual(a, b) == CompareFrom(a.segs, b.segs, 1) <= 0

\* localVersion.LessThan(remoteVersion)                          update.go:73
LessThan(a, b) == CompareFrom(a.segs, b.segs, 1) < 0

\* the text of a version from its numbers
VersionText(segs) ==
    IF Len(segs) = 2 THEN FormatInt(segs[1]) \o <<Ch.dot>> \o FormatInt(segs[2])
    ELSE FormatInt(segs[1]) \o <<Ch.dot>> \o FormatInt(segs[2]) \o <<Ch.dot>>
         \o FormatInt(segs[3])

(***************************************************************************)
(* updatecheck.go: the update manifest and the selection in it.            *)
(* An XML attribute is a *string: Nil when the attribute is absent.        *)
(***************************************************************************)
Nil == [nil |-> TRUE]
Ptr(x) == [nil |-> FALSE, s |-> x]

\* runtime.GOOS of the running host
GOOS == "linux"

\* App.getAppId, Update.getGoos, Update.getUrl: the empty text for a nil
\* pointer (application identifiers are byte sequences, see AppName)
getAppId(a) == IF a.AppId.nil THEN <<>> ELSE a.AppId.s
getGoos(u) == IF u.Goos.nil THEN "" ELSE u.Goos.s
getUrl(u) == IF u.Url.nil THEN "" ELSE u.Url.s
\* Update.getVersion: the empty text for a nil pointer
getVersion(u) == IF u.Version.nil THEN <<>> ELSE u.Version.s

\* the index of the first element of seq that satisfies Test, 0 if none
FirstIndex(seq, Test(_)) ==
    IF \E i \in 1..Len(seq) : Test(seq[i])
    THEN CHOOSE i \in 1..Len(seq) : Test(seq[i]) /\ \A j \in 1..(i - 1) : ~Test(seq[j])
    ELSE 0

\* a defect the fallback could have: taking the last update, not the first
getUrlAndVersionLast(a) ==
    LET IsMine(u) == getGoos(u) = GOOS
        m == FirstIndex(a.Updates, IsMine)
        n == Len(a.Updates)
        url == IF m = 0 THEN "" ELSE getUrl(a.Updates[m])
        version == IF m = 0 THEN <<>> ELSE getVersion(a.Updates[m])
    IN IF (url = "" \/ version = <<>>) /\ n > 0
       THEN [url |-> getUrl(a.Updates[n]), version |-> getVersion(a.Updates[n])]
       ELSE [url |-> url, version |-> version]

\* a defect the selection could have: only the empty one of url and
\* version taken from the first update
getUrlAndVersionFillsGaps(a) ==
    LET IsMine(u) == getGoos(u) = GOOS
        m == FirstIndex(a.Updates, IsMine)
        url == IF m = 0 THEN "" ELSE getUrl(a.Updates[m])
        version == IF m = 0 THEN <<>> ELSE getVersion(a.Updates[m])
    IN IF Len(a.Updates) > 0
       THEN [url |-> IF url = "" THEN getUrl(a.Updates[1]) ELSE url,
             version |-> IF version = <<>> THEN getVersion(a.Updates[1]) ELSE version]
       ELSE [url |-> url, version |-> version]

\* App.getUrlAndVersion: the first update whose os is runtime.GOOS; the
\* first update of all when that left url or version empty
getUrlAndVersion(a) ==
    LET IsMine(u) == getGoos(u) = GOOS
        m == FirstIndex(a.Updates, IsMine)
        url == IF m = 0 THEN "" ELSE getUrl(a.Updates[m])
        version == IF m = 0 THEN <<>> ELSE getVersion(a.Updates[m])
    IN IF (url = "" \/ version = <<>>) /\ Len(a.Updates) > 0
       THEN [url |-> getUrl(a.Updates[1]), version |-> getVersion(a.Updates[1])]
       ELSE [url |-> url, version |-> version]

\* a defect the lookup could have: the first app of all when none has the id
GetUrlAndVersionFirstApp(response, appName) ==
    LET IsApp(a) == getAppId(a) = appName
        m == FirstIndex(response.Apps, IsApp)
    IN IF m # 0 THEN getUrlAndVersion(response.Apps[m])
       ELSE IF Len(response.Apps) > 0 THEN getUrlAndVersion(response.Apps[1])
       ELSE [url |-> "", version |-> <<>>]

\* a defect the lookup could have: going on to a later app of the id when
\* an earlier one gave no url or no version
RECURSIVE GetUrlAndVersionFirstUseful(_, _)
GetUrlAndVersionFirstUseful(response, appName) ==
    IF response.Apps = <<>> THEN [url |-> "", version |-> <<>>]
    ELSE LET a == Head(response.Apps)
             r == getUrlAndVersion(a)
         IN IF getAppId(a) = appName /\ r.url # "" /\ r.version # <<>> THEN r
            ELSE GetUrlAndVersionFirstUseful([Apps |-> Tail(response.Apps)], appName)

\* UpdateCheckResponse.GetUrlAndVersion(appName): the first app of that id
GetUrlAndVersion(response, appName) ==
    LET IsApp(a) == getAppId(a) = appName
        m == FirstIndex(response.Apps, IsApp)
    IN IF m = 0 THEN [url |-> "", version |-> <<>>]
       ELSE getUrlAndVersion(response.Apps[m])

\* getDownloadUrlAndVersion after client.MustGetWithContext returned resp:
\* xml.Decode of the body gave a response document or a decode error
getDownloadUrlAndVersion(host, resp) ==
    IF resp.kind = "malformed" THEN [url |-> "", version |-> <<>>, err |-> "xml error"]
    ELSE LET r == GetUrlAndVersion(resp.doc, host.AppName)
         IN [url |-> r.url, version |-> r.version, err |-> "nil"]

(***************************************************************************)
(* download.go: downloadLatest.                                            *)
(***************************************************************************)
Http == [StatusOK |-> 200, StatusNoContent |-> 204, StatusNotFound |-> 404]

\* a defect the status test could have: taking every 2xx status
StatusIs2xx(resp) == resp.status \div 100 = 2

\* `resp.StatusCode != http.StatusOK` is an error               download.go:63
StatusIsOK(resp) == resp.status = Http.StatusOK

\* os.Rename(from, to): the file moves, replacing what was at `to`; it fails,
\* changing nothing, when the system refuses (ok = FALSE) or `from` is missing
RenameOk(fs, from, ok) == ok /\ fs[from].exists
Rename(fs, from, to) == [fs EXCEPT ![to] = fs[from], ![from] = NoFile]

\* a defect the open could have: the backup name opened and emptied
OpenFileOfBackup(fs, mask) ==
    [fs EXCEPT !.bak = File(<<>>, IF fs.bak.exists THEN fs.bak.mode
                                  ELSE ClearBits(Perm.exec, mask))]

\* a defect the open could have: creating the executable with mode 0644
OpenFileAsData(fs, mask) ==
    [fs EXCEPT !.exec = File(<<>>, IF fs.exec.exists THEN fs.exec.mode
                                   ELSE ClearBits(Perm.chk, mask))]

\* fs.OpenFile(h.ExecName, os.O_CREATE|os.O_TRUNC|os.O_WRONLY, 0755): an
\* existing file is emptied and keeps its mode, a new one gets 0755 &^ umask
OpenFile(fs, mask) ==
    [fs EXCEPT !.exec = File(<<>>, IF fs.exec.exists THEN fs.exec.mode
                                   ELSE ClearBits(Perm.exec, mask))]

\* a defect the rollback could have: its own failure replacing the cause
RollbackDropsCause(fs, cause, ok) ==
    IF RenameOk(fs, "bak", ok)
    THEN [fs |-> Rename(fs, "bak", "exec"), err |-> <<cause>>, call |-> "ok"]
    ELSE [fs |-> fs, err |-> <<"rollback">>, call |-> "failed"]

\* a defect the rollback could have: returning the cause without renaming
RollbackForgotten(fs, cause, ok) == [fs |-> fs, err |-> <<cause>>, call |-> "ok"]

\* the rollback of download.go:74-77 and :82-85: rename the backup back; when
\* that fails too, the error carries the cause and the rollback failure
Rollback(fs, cause, ok) ==
    IF RenameOk(fs, "bak", ok)
    THEN [fs |-> Rename(fs, "bak", "exec"), err |-> <<cause>>, call |-> "ok"]
    ELSE [fs |-> fs, err |-> <<cause, "rollback">>, call |-> "failed"]

\* a defect the cleanup could have: a backup that cannot be deleted is put
\* back in place of the new executable
RemoveOrRestore(fs, ok) ==
    IF ok THEN [fs EXCEPT !.bak = NoFile] ELSE Rename(fs, "bak", "exec")

\* a defect the cleanup could have: the backup is never deleted
RemoveSkipped(fs, ok) == fs

\* os.Remove(backupName), its result dropped                    download.go:88
Remove(fs, ok) == IF ok THEN [fs EXCEPT !.bak = NoFile] ELSE fs

\* no system call made yet
NoCalls == [rename |-> "none", open |-> "none", copy |-> "none",
            rollback |-> "none", remove |-> "none"]

\* a defect the backup step could have: a rollback rename after the backup
\* rename failed
BackupFailedRollsBack(none) ==
    [none EXCEPT !.renamed = 2, !.calls.rename = "failed",
                 !.calls.rollback = "failed", !.err = <<"rename", "rollback">>]

\* `if err := osRename(h.ExecName, backupName); err != nil { return err }`
\*                                                          download.go:68-70
BackupFailed(none) ==
    [none EXCEPT !.renamed = 1, !.calls.rename = "failed", !.err = <<"rename">>]

\* a defect the open step could have: going on to the copy after the rollback
OpenFailedCopies(none, rb) ==
    [none EXCEPT !.fs = rb.fs, !.renamed = 2, !.opened = TRUE, !.copied = TRUE,
                 !.calls.rename = "ok", !.calls.open = "failed",
                 !.calls.copy = "failed",
                 !.calls.rollback = rb.call, !.err = rb.err]

\* fs.OpenFile failed: the rollback rb, then `return err`   download.go:73-78
OpenFailed(none, rb) ==
    [none EXCEPT !.fs = rb.fs, !.renamed = 2, !.opened = TRUE,
                 !.calls.rename = "ok", !.calls.open = "failed",
                 !.calls.rollback = rb.call, !.err = rb.err]

\* a defect the copy step could have: dropping the copy error once the
\* rollback went through
CopyFailedReturnsNil(none, rb) ==
    [none EXCEPT !.fs = rb.fs, !.renamed = 2, !.opened = TRUE,
                 !.copied = TRUE, !.calls.rename = "ok", !.calls.open = "ok",
                 !.calls.copy = "failed", !.calls.rollback = rb.call,
                 !.err = IF rb.call = "ok" THEN <<>> ELSE rb.err]

\* ioCopy failed: the rollback rb, then `return err`        download.go:81-86
CopyFailed(none, rb) ==
    [none EXCEPT !.fs = rb.fs, !.renamed = 2, !.opened = TRUE,
                 !.copied = TRUE, !.calls.rename = "ok", !.calls.open = "ok",
                 !.calls.copy = "failed", !.calls.rollback = rb.call,
                 !.err = rb.err]

\* downloadLatest(url) once client.MustGetWithContext has returned resp.
\* env is what the system does to each call: rename, open, rollback, remove
\* succeed or not; copy = [ok, n] writes n bytes of the body and then succeeds
\* (n is all of it) or fails.  The result: the file system, the counters of
\* TestDownloadLatest (renamed, opened, copied), how each call that was made
\* ended, and the error returned (<<>> for nil).
downloadLatest(fs, resp, env, mask) ==
    LET none == [fs |-> fs, renamed |-> 0, opened |-> FALSE, copied |-> FALSE,
                 calls |-> NoCalls, err |-> <<>>]
        fs1 == Rename(fs, "exec", "bak")
        fs2 == OpenFile(fs1, mask)
        fs3 == [fs2 EXCEPT !.exec.content = SubSeq(resp.body, 1, env.copy.n)]
        rbOpen == Rollback(fs1, "open", env.rollback)
        rbCopy == Rollback(fs3, "copy", env.rollback)
    IN IF ~StatusIsOK(resp) THEN [none EXCEPT !.err = <<"status">>]
       ELSE IF ~RenameOk(fs, "exec", env.rename)
       THEN BackupFailed(none)
       ELSE IF ~env.open THEN OpenFailed(none, rbOpen)
       ELSE IF ~env.copy.ok THEN CopyFailed(none, rbCopy)
       ELSE [none EXCEPT !.fs = Remove(fs3, env.remove),
                         !.renamed = 1, !.opened = TRUE, !.copied = TRUE,
                         !.calls.rename = "ok", !.calls.open = "ok",
                         !.calls.copy = "ok",
                         !.calls.remove = IF env.remove THEN "ok" ELSE "failed"]

(***************************************************************************)
(* update.go: needUpdate and AutoUpdateCheck.                              *)
(***************************************************************************)
\* needUpdate up to the manifest fetch (update.go:52-64): the daily gate, the
\* sidecar write (its failure is only logged) and version.Must on the local
\* version.  next is "return" (already checked today), "panic" or "fetch".
\* a defect needUpdate could have: the local version not parsed before the
\* manifest GET
needUpdateBeginFetchesFirst(host, fs, t, w, mask) ==
    IF isCheckedToday(fs, t)
    THEN [fs |-> fs, next |-> "return", events |-> <<"isCheckedToday">>]
    ELSE [fs |-> writeCheckTimestamp(fs, t, w, mask),
          next |-> "fetch",
          events |-> <<"isCheckedToday", "writeCheckTimestamp">>
                     \o (IF w = "ok" THEN <<>> ELSE <<"log: Update timestamp error">>)]

\* a defect needUpdate could have: giving up when the sidecar write failed
needUpdateBeginStopsOnWriteError(host, fs, t, w, mask) ==
    IF isCheckedToday(fs, t)
    THEN [fs |-> fs, next |-> "return", events |-> <<"isCheckedToday">>]
    ELSE IF w # "ok"
    THEN [fs |-> writeCheckTimestamp(fs, t, w, mask), next |-> "return",
          events |-> <<"isCheckedToday", "writeCheckTimestamp",
                       "log: Update timestamp error">>]
    ELSE [fs |-> writeCheckTimestamp(fs, t, w, mask),
          next |-> IF NewVersion(host.Version).ok THEN "fetch" ELSE "panic",
          events |-> <<"isCheckedToday", "writeCheckTimestamp">>
                     \o (IF NewVersion(host.Version).ok THEN <<>> ELSE <<"panic">>)]

needUpdateBegin(host, fs, t, w, mask) ==
    IF isCheckedToday(fs, t)
    THEN [fs |-> fs, next |-> "return", events |-> <<"isCheckedToday">>]
    ELSE [fs |-> writeCheckTimestamp(fs, t, w, mask),
          next |-> IF NewVersion(host.Version).ok THEN "fetch" ELSE "panic",
          events |-> <<"isCheckedToday", "writeCheckTimestamp">>
                     \o (IF w = "ok" THEN <<>> ELSE <<"log: Update timestamp error">>)
                     \o (IF NewVersion(host.Version).ok THEN <<>> ELSE <<"panic">>)]

\* needUpdate from the manifest fetch on (update.go:66-80) and the branch of
\* AutoUpdateCheck on its result; sel is what getDownloadUrlAndVersion gave.  get is what client.MustGetWithContext met:
\* an error makes it call logFatalf (log.Fatalf: the process exits with
\* status 1); otherwise the manifest is decoded, a decode error is logged,
\* and version.Must panics on a remote version that does not parse.
needUpdateEnd(host, get) ==
    IF get.kind = "error"
    THEN [next |-> "fatal", needed |-> FALSE, downloadUrl |-> "",
          sel |-> [url |-> "", version |-> <<>>],
          events |-> <<"GET manifest", "logFatalf">>]
    ELSE LET r == getDownloadUrlAndVersion(host, get)
             localVersion == NewVersion(host.Version)
             remoteVersion == NewVersion(r.version)
             logged == IF r.err = "nil" THEN <<>> ELSE <<"log: Update check error">>
             sel == [url |-> r.url, version |-> r.version]
         IN IF ~remoteVersion.ok
            THEN [next |-> "panic", needed |-> FALSE, downloadUrl |-> "", sel |-> sel,
                  events |-> <<"GET manifest">> \o logged \o <<"panic">>]
            ELSE IF LessThan(localVersion, remoteVersion)
            THEN [next |-> "download", needed |-> TRUE, downloadUrl |-> r.url, sel |-> sel,
                  events |-> <<"GET manifest">> \o logged \o <<"compare">>]
            ELSE [next |-> "return", needed |-> FALSE, downloadUrl |-> r.url, sel |-> sel,
                  events |-> <<"GET manifest">> \o logged \o <<"compare">>]

(***************************************************************************)
(* The inputs of the update path.                                          *)
(***************************************************************************)
\* names are byte sequences, so that Init can cut one out of a path
AppName == <<97, 112, 112>>                 \* "app"
OtherApp == <<111, 116, 104, 101, 114>>     \* "other"

LocalVersions == {<<1, 0, 0>>, <<0, 9, 0>>, <<1, 0, 1>>, <<2, 10>>}
RemoteVersions == {<<1, 0, 0>>, <<2, 9>>}
BadVersion == <<Ch.x>>

Update(goos, url, version) == [Goos |-> goos, Url |-> url, Version |-> version]
App(id, updates) == [AppId |-> id, Updates |-> updates]

\* a manifest the GET brought, with the url and version its author means the
\* host of AppName on GOOS to get
Doc(apps, url, version) ==
    [kind |-> "doc", doc |-> [Apps |-> apps],
     want |-> [url |-> url, version |-> version]]

\* what the GET of the update manifest can bring
ManifestGets ==
    LET other == Ptr(VersionText(<<9, 9, 9>>))
    IN { Doc(<<App(Nil, <<Update(Nil, Ptr("u.none"), other)>>),
               App(Ptr(AppName), <<Update(Ptr("darwin"), Ptr("u.darwin"), other),
                                   Update(Ptr("linux"), Ptr("u.linux"),
                                          Ptr(VersionText(n))),
                                   Update(Ptr("windows"), Ptr("u.exe"), other)>>),
               App(Ptr(AppName), <<Update(Ptr("linux"), Ptr("u.second"), other)>>)>>,
             "u.linux", VersionText(n)) : n \in RemoteVersions }
       \cup { [kind |-> "error"], [kind |-> "malformed"],
              Doc(<<App(Ptr(AppName), <<Update(Nil, Ptr("u.all"),
                                               Ptr(VersionText(<<1, 0, 0>>)))>>)>>,
                  "u.all", VersionText(<<1, 0, 0>>)),
              Doc(<<App(Ptr(OtherApp), <<Update(Nil, Ptr("u.all"), other)>>)>>,
                  "", <<>>),
              Doc(<<App(Ptr(AppName), <<Update(Nil, Ptr("u.all"), Ptr(BadVersion))>>)>>,
                  "u.all", BadVersion) }

\* the update records a drawn manifest is made of: os absent, this platform
\* or another; codebase and version absent or one of two
SelectRecords ==
    {Update(g, u, n) : g \in {Nil, Ptr(GOOS), Ptr("darwin")},
                       u \in {Nil, Ptr("u.a"), Ptr("u.b")},
                       n \in {Nil} \cup {Ptr(VersionText(r)) : r \in RemoteVersions}}

\* a decoded manifest
Manifest(apps) == [kind |-> "doc", doc |-> [Apps |-> apps]]

\* the record of a second application of the same identifier
LateRecord == Update(Ptr(GOOS), Ptr("u.late"), Ptr(VersionText(<<9, 9, 9>>)))

\* identifiers that are not AppName: absent, another case, a longer and a
\* shorter one
OtherIds == {Nil, Ptr(<<65, 80, 80>>), Ptr(AppName \o <<Ch.dot, Ch.x>>), Ptr(<<97, 112>>)}

\* manifests of another application followed by this one, which holds up to
\* MaxUpdates update records; manifests without this application: empty, or
\* one application of another identifier; manifests with this application
\* twice
SelectGets ==
    {Manifest(<<App(Ptr(OtherApp), <<Update(Ptr(GOOS), Ptr("u.other"),
                                           Ptr(VersionText(<<9, 9, 9>>)))>>),
                App(Ptr(AppName), us)>>) : us \in SeqsUpTo(SelectRecords, MaxUpdates)}
    \cup {Manifest(<<>>)}
    \cup {Manifest(<<App(Ptr(AppName), us), App(Ptr(AppName), <<LateRecord>>)>>) :
              us \in SeqsUpTo(SelectRecords, 1)}
    \cup {Manifest(<<App(id, us)>>) : id \in OtherIds, us \in SeqsUpTo(SelectRecords, 1)}

\* what the GET of an update URL can bring: u.select serves the drawn
\* manifests, any other URL those of ManifestGets
UrlSelect == "u.select"
GetsAt(url) == IF url = UrlSelect THEN SelectGets ELSE ManifestGets

\* what the GET of the download URL can bring
TextOld == <<111, 108, 100>>    \* old
TextOK == <<79, 75>>            \* OK
DownloadGets ==
    { [kind |-> "error"],
      [kind |-> "resp", status |-> Http.StatusNotFound, body |-> <<78, 111>>],
      [kind |-> "resp", status |-> Http.StatusNoContent, body |-> <<>>],
      [kind |-> "resp", status |-> Http.StatusOK, body |-> TextOK] }

DownloadEnvs(body) ==
    [rename : BOOLEAN, open : BOOLEAN, rollback : BOOLEAN, remove : BOOLEAN,
     copy : {[ok |-> TRUE, n |-> Len(body)]}
            \cup {[ok |-> FALSE, n |-> k] : k \in 0..(Len(body) - 1)}]

\* the file systems downloadLatest passes through from the backup rename
\* until the copy has completed or the call has returned: after the rename,
\* after the open, after each byte of the copy, after a rollback
downloadLatestStages(fs, resp, env, mask) ==
    LET fs1 == Rename(fs, "exec", "bak")
        fs2 == OpenFile(fs1, mask)
        Copied(k) == [fs2 EXCEPT !.exec.content = SubSeq(resp.body, 1, k)]
    IN IF ~StatusIsOK(resp) THEN <<>>
       ELSE IF ~RenameOk(fs, "exec", env.rename) THEN <<fs>>
       ELSE IF ~env.open THEN <<fs1, Rollback(fs1, "open", env.rollback).fs>>
       ELSE <<fs1, fs2>> \o [k \in 1..env.copy.n |-> Copied(k)]
            \o (IF env.copy.ok THEN <<>>
                ELSE <<Rollback(Copied(env.copy.n), "copy", env.rollback).fs>>)

Slash == 47
Stdio == <<115, 116, 100, 105, 111>>        \* "stdio"

\* the index of the last byte c of p at or before i, 0 if there is none
RECURSIVE LastIndexOf(_, _, _)
LastIndexOf(p, c, i) ==
    IF i = 0 THEN 0 ELSE IF p[i] = c THEN i ELSE LastIndexOf(p, c, i - 1)

\* filepath.Base: trailing slashes dropped, then the last element; "." for
\* the empty path, "/" for a path of slashes only
RECURSIVE Base(_)
Base(p) ==
    IF p = <<>> THEN <<Ch.dot>>
    ELSE IF p[Len(p)] = Slash
    THEN IF Len(p) = 1 THEN <<Slash>> ELSE Base(SubSeq(p, 1, Len(p) - 1))
    ELSE SubSeq(p, LastIndexOf(p, Slash, Len(p)) + 1, Len(p))

\* path.Ext: from the final dot of the final element on, empty without one
Ext(p) ==
    LET slash == LastIndexOf(p, Slash, Len(p))
        dot == LastIndexOf(p, Ch.dot, Len(p))
    IN IF dot > slash THEN SubSeq(p, dot, Len(p)) ELSE <<>>

\* strings.TrimSuffix
TrimSuffix(t, suffix) ==
    IF /\ Len(suffix) <= Len(t)
       /\ SubSeq(t, Len(t) - Len(suffix) + 1, Len(t)) = suffix
    THEN SubSeq(t, 1, Len(t) - Len(suffix))
    ELSE t

\* a defect Init could have: the communication type set whatever was given
HostInitSetsAppType(host, exec) ==
    LET name == IF host.AppName = <<>> THEN TrimSuffix(Base(exec), Ext(exec))
                ELSE host.AppName
    IN [host EXCEPT
          !.ExecName = exec,
          !.AppName = name,
          !.AppDesc = IF @ = <<>> THEN name ELSE @,
          !.AppType = Stdio,
          !.ByteOrder = IF @ = "nil" THEN "LittleEndian" ELSE @,
          !.AutoUpdate = IF host.UpdateUrl # "" /\ host.Version # <<>> THEN TRUE ELSE @]

\* Host.Init on the value the caller built; exec is what os.Executable,
\* EvalSymlinks and Abs gave for the running executable.  Every default is
\* set under `if field is empty`; AutoUpdate is set to true under `if
\* UpdateUrl != "" && Version != ""` and is not touched otherwise.
HostInit(host, exec) ==
    LET name == IF host.AppName = <<>> THEN TrimSuffix(Base(exec), Ext(exec))
                ELSE host.AppName
    IN [host EXCEPT
          !.ExecName = exec,
          !.AppName = name,
          !.AppDesc = IF @ = <<>> THEN name ELSE @,
          !.AppType = IF @ = <<>> THEN Stdio ELSE @,
          !.ByteOrder = IF @ = "nil" THEN "LittleEndian" ELSE @,
          !.AutoUpdate = IF host.UpdateUrl # "" /\ host.Version # <<>> THEN TRUE ELSE @]

\* the Host literal of a caller that names its application and leaves the
\* other manifest fields and the flag at their zero values
Caller(order, updateUrl, version) ==
    [AppName |-> AppName, AppDesc |-> <<>>, ExecName |-> <<>>, AppType |-> <<>>,
     AutoUpdate |-> FALSE, ByteOrder |-> order, UpdateUrl |-> updateUrl,
     Version |-> version]

\* the resolved path of the running executable: "/o/app"
Executable == <<Slash, 111, Slash>> \o AppName

\* resolved paths of executables: plain, with an extension, below a
\* directory with a dot in its name, and a name that starts with its only dot
ExecPaths ==
    {Executable,
     Executable \o <<Ch.dot, Ch.x>>,
     <<Slash, 111, Ch.dot, Ch.x, Slash>> \o AppName,
     <<Slash, 111, Slash, Ch.dot>> \o AppName}

\* the Host literals a caller can build before Init
Callers ==
    [AppName : {<<>>, AppName}, AppDesc : {<<>>, <<Ch.a, Ch.space, Ch.b>>},
     ExecName : {<<>>, <<Slash, Ch.x>>}, AppType : {<<>>, <<Ch.x>>},
     AutoUpdate : BOOLEAN, ByteOrder : {"nil", "LittleEndian", "BigEndian"},
     UpdateUrl : {"", "u.xml"}, Version : {<<>>, VersionText(<<1, 0, 0>>)}]

\* the sidecar a start of the host can find where no check has run: none,
\* an empty one, and two that are no decimal number ("x", "1x")
Sidecars ==
    {NoFile} \cup {File(c, Perm.chk) : c \in {<<>>, <<Ch.x>>, <<49, Ch.x>>}}

\* the callers of the update path
HostCallers ==
    {Caller("LittleEndian", "u.xml", ver) :
        ver \in {VersionText(n) : n \in LocalVersions} \cup {BadVersion}}
    \cup {Caller("LittleEndian", "", VersionText(<<1, 0, 0>>)),
          Caller("LittleEndian", "u.xml", <<>>)}

Hosts == {HostInit(c, Executable) : c \in HostCallers}

\* the executable as installed
Installed == File(TextOld, Perm.owner)

(***************************************************************************)
(* The state machine.                                                      *)
(* pc: "run" the host is between OnMessage calls; "check" readHeader met   *)
(* io.EOF and entered AutoUpdateCheck; "fetch" needUpdate is about to GET  *)
(* the manifest; "download" AutoUpdateCheck is about to call               *)
(* downloadLatest; "goexit" AutoUpdateCheck returned and runtimeGoexit is  *)
(* next; "exited" runtime.Goexit ended the goroutine; "returned" a         *)
(* replaced runtimeGoexit returned and OnMessage returned io.EOF; "fatal"  *)
(* log.Fatalf ended the process; "panic" version.Must panicked.            *)
(***************************************************************************)
CallNone == [n |-> 0, frame |-> NoFrame, aligned |-> TRUE, consumed |-> 0,
             before |-> FreshAny, after |-> FreshAny]

NoDownload == [renamed |-> 0, opened |-> FALSE, copied |-> FALSE,
               calls |-> NoCalls, err |-> <<>>]

\* the locals of one update check: whether needUpdate ran, the tick and day
\* it ran at, where the gate sent it, the sidecar write made, the manifest
\* GET met, the url and version selected from it, the decision, the download GET met, the downloader's result and
\* the executable as the downloader found it, the sidecar as the check
\* found it, and the file systems the downloader passed through
UpdIdle == [checked |-> FALSE, day |-> 0, gate |-> "none", w |-> "none",
            get |-> [kind |-> "none"], sel |-> [url |-> "", version |-> <<>>],
            compared |-> FALSE, needed |-> FALSE,
            downloadUrl |-> "", dlGet |-> [kind |-> "none"], called |-> FALSE,
            url |-> "", dl |-> NoDownload, orig |-> NoFile, chk |-> NoFile,
            mid |-> <<>>]

PrevNone == [runs |-> 1, checked |-> FALSE, day |-> 0, w |-> "none", fetched |-> FALSE]

Terminal == {"exited", "returned", "fatal", "panic"}

\* a defect readHeader could have: the hook first, the check after it
readHeaderNextHookFirst(at) == IF at = "EOF" THEN "goexit" ELSE "check"

\* readHeader on io.EOF: h.AutoUpdateCheck(), then runtimeGoexit()  host.go:231-235
readHeaderNext(at) == IF at = "EOF" THEN "check" ELSE "goexit"

FrameIdle ==
    /\ pending = <<>>
    /\ reader = <<>>
    /\ v = FreshAny
    /\ err = "none"
    /\ call = CallNone
    /\ writer = <<>>

UpdIdleInit ==
    /\ files = [exec |-> Installed, bak |-> NoFile, chk |-> NoFile]
    /\ umask = 18
    /\ now = TicksPerDay
    /\ upd = UpdIdle
    /\ trace = <<>>
    /\ prev = PrevNone

(***************************************************************************)
(* manifest.go, manifest_darwin.go, manifest_windows.go: Uninstall.        *)
(***************************************************************************)
\* the platforms the three manifest files are built for
Platforms == {"linux", "darwin", "windows"}

\* the manifest descriptor as Install wrote it
ManifestFile == File(<<Ch.lbrace, Ch.rbrace>>, Perm.chk)

\* no Uninstall call yet, nothing installed
UnNone == [goos |-> GOOS, manifest |-> NoFile, value |-> FALSE, called |-> FALSE,
           steps |-> <<>>, logged |-> 0, ret |-> "none"]

\* what the system does to each step of Uninstall: user.Current (linux),
\* registry.OpenKey and Key.DeleteValue (windows), the three os.Remove
UninstallEnvs ==
    [target : {"ok", "err"}, key : {"ok", "err"}, value : {"ok", "err"},
     manifest : {"ok", "err"}, exec : {"ok", "err"}, chk : {"ok", "err"}]

\* os.Remove(name): an error for a file that is not there or cannot be removed
osRemove(f, out) ==
    IF f.exists /\ out = "ok" THEN [f |-> NoFile, err |-> FALSE]
    ELSE [f |-> f, err |-> TRUE]

\* Key.DeleteValue(""): an error on the handle of a key that did not open,
\* for a value that is not there, or when the registry refuses
DeleteValue(value, env) ==
    IF env.key = "ok" /\ value /\ env.value = "ok"
    THEN [value |-> FALSE, err |-> FALSE]
    ELSE [value |-> value, err |-> TRUE]

Count(b) == IF b THEN 1 ELSE 0

\* Uninstall on the platform goos: the steps attempted, in order, the lines
\* logged for failures, what is left of the files and of the registry value,
\* and where the call ends.  On linux getTargetName can fail (user.Current)
\* and Uninstall returns that error at once; on linux the end is
\* runtime.Goexit itself, elsewhere the runtimeGoexit hook.
UninstallResult(goos, fs, u, env, hook) ==
    IF goos = "linux" /\ env.target = "err"
    THEN [fs |-> fs, manifest |-> u.manifest, value |-> u.value,
          steps |-> <<"getTargetName">>, logged |-> 0, ret |-> "error",
          next |-> "run"]
    ELSE LET val == IF goos = "windows" THEN DeleteValue(u.value, env)
                    ELSE [value |-> u.value, err |-> FALSE]
             man == osRemove(u.manifest, env.manifest)
             exe == osRemove(fs.exec, env.exec)
             chk == osRemove(fs.chk, env.chk)
         IN [fs |-> [fs EXCEPT !.exec = exe.f, !.chk = chk.f],
             manifest |-> man.f,
             value |-> val.value,
             steps |-> (IF goos = "linux" THEN <<"getTargetName">> ELSE <<>>)
                       \o (IF goos = "windows" THEN <<"OpenKey", "DeleteValue">>
                           ELSE <<>>)
                       \o <<"Remove manifest", "Remove exec", "Remove chk",
                            "runtimeGoexit">>,
             logged |-> Count(goos = "windows" /\ env.key = "err") + Count(val.err)
                        + Count(man.err) + Count(exe.err) + Count(chk.err),
             ret |-> "none",
             next |-> IF goos = "linux" \/ hook = "runtime.Goexit"
                      THEN "exited" ELSE "returned"]

\* h.Uninstall()
Uninstall ==
    /\ pc = "run"
    /\ ~un.called
    /\ \E env \in UninstallEnvs, hook \in {"runtime.Goexit", "stub"} :
        \E r \in {UninstallResult(un.goos, files, un, env, hook)} :
           /\ files' = r.fs
           /\ un' = [un EXCEPT !.called = TRUE, !.manifest = r.manifest,
                               !.value = r.value, !.steps = r.steps,
                               !.logged = r.logged, !.ret = r.ret]
           /\ pc' = r.next
    /\ UNCHANGED <<h, given, frameVars, umask, now, upd, trace, prev>>

\* h.Init() in a process whose executable is exec              host.go:157-183
HostInitCall ==
    /\ pc = "new"
    /\ \E exec \in ExecPaths : h' = HostInit(h, exec)
    /\ pc' = "run"
    /\ UNCHANGED <<given, un, frameVars, updVars>>

\* the caller hands OnMessage a value of its choice
NewValue ==
    /\ pc = "run"
    /\ reader # <<>>
    /\ \E x \in {FreshAny, FreshH, UsedH} : x # v /\ v' = x
    /\ UNCHANGED <<h, given, un, pc, reader, pending, err, call, writer, updVars>>

\* OnMessage(reader, v); chunk is how the reader cuts its Reads
OnMessage ==
    /\ pc = "run"
    /\ \E chunk \in 0..MaxChunk :
        \E r \in {OnMessageResult(h.ByteOrder, reader, v, chunk)} :
           /\ reader' = r.rd
           /\ v' = r.v
           /\ call' = [n |-> call.n + 1,
                       frame |-> IF pending = <<>> THEN NoFrame ELSE Head(pending),
                       aligned |-> (reader = Stream(pending)),
                       consumed |-> Len(reader) - Len(r.rd),
                       before |-> v,
                       after |-> r.v]
           /\ IF r.eof
              THEN /\ pc' = readHeaderNext("EOF")
                   /\ err' = "none"
                   /\ trace' = <<"EOF">>
              ELSE /\ pc' = pc
                   /\ err' = r.err
                   /\ trace' = trace
    /\ pending' = IF pending = <<>> THEN <<>> ELSE Tail(pending)
    /\ UNCHANGED <<h, given, un, writer, files, umask, now, upd, prev>>

\* PostMessage(writer, x) into a buffer that is then read back
PostMessage ==
    /\ pc = "run"
    /\ call.n = 0 /\ err = "none" /\ reader = <<>>
    /\ \E x \in Values \cup {JChan}, hw \in WriteOutcomes, bw \in WriteOutcomes :
        \E r \in {PostMessageResult(h.ByteOrder, x, hw, bw)} :
           /\ writer' = r.writes
           /\ err' = r.err
           /\ reader' = Accepted(r.writes)
           /\ pending' = <<[hdr |-> IF Len(r.writes) >= 1
                                    THEN Accepted(<<r.writes[1]>>) ELSE <<>>,
                            body |-> IF Len(r.writes) >= 2
                                     THEN Accepted(<<r.writes[2]>>) ELSE <<>>,
                            val |-> x, kind |-> "posted"]>>
    /\ UNCHANGED <<h, given, un, pc, v, call, updVars>>

\* a defect AutoUpdateCheck could have: the flag not looked at
AutoUpdateAlways(host) == TRUE

\* `if h.AutoUpdate {`                                            update.go:20
AutoUpdateOn(host) == host.AutoUpdate

\* AutoUpdateCheck up to the manifest GET                      update.go:19-64
AutoUpdateCheck ==
    /\ pc = "check"
    /\ IF ~AutoUpdateOn(h)
       THEN /\ pc' = readHeaderNext("checked")
            /\ trace' = trace \o <<"AutoUpdateCheck", "AutoUpdateCheck returns">>
            /\ UNCHANGED <<files, upd>>
       ELSE \E w \in {"ok", "openfail", "writefail"} :
            \E r \in {needUpdateBegin(h, files, now, w, umask)} :
               /\ (r.next = "return" /\ isCheckedToday(files, now)) => w = "ok"
               /\ files' = r.fs
               /\ upd' = [upd EXCEPT !.checked = TRUE, !.day = Date(now),
                                     !.chk = files.chk,
                                     !.gate = r.next,
                                     !.w = IF isCheckedToday(files, now)
                                           THEN "none" ELSE w]
               /\ pc' = IF r.next = "return" THEN readHeaderNext("checked") ELSE r.next
               /\ trace' = trace \o <<"AutoUpdateCheck">> \o r.events
                           \o (IF r.next = "return"
                               THEN <<"AutoUpdateCheck returns">> ELSE <<>>)
    /\ UNCHANGED <<h, given, un, frameVars, umask, now, prev>>

\* needUpdate from the manifest GET on, and AutoUpdateCheck's branch on it
\*                                        update.go:66-80, :21, download.go:94-111
NeedUpdateFetch ==
    /\ pc = "fetch"
    /\ \E get \in GetsAt(h.UpdateUrl) :
        \E r \in {needUpdateEnd(h, get)} :
           /\ upd' = [upd EXCEPT !.get = get, !.sel = r.sel,
                                 !.compared = (r.next \in {"download", "return"}),
                                 !.needed = r.needed, !.downloadUrl = r.downloadUrl]
           /\ pc' = IF r.next = "return" THEN readHeaderNext("checked") ELSE r.next
           /\ trace' = trace \o r.events
                       \o (IF r.next = "return" THEN <<"AutoUpdateCheck returns">> ELSE <<>>)
    /\ UNCHANGED <<h, given, un, frameVars, files, umask, now, prev>>

\* h.downloadLatest(downloadUrl) and the logging of its result
\*                                          update.go:22-26, download.go:56-90
DownloadLatest ==
    /\ pc = "download"
    /\ \E get \in DownloadGets :
        IF get.kind = "error"
        THEN /\ pc' = "fatal"
             /\ upd' = [upd EXCEPT !.called = TRUE, !.url = upd.downloadUrl,
                                   !.dlGet = get, !.orig = files.exec]
             /\ trace' = trace \o <<"downloadLatest", "GET download", "logFatalf">>
             /\ files' = files
        ELSE \E env \in DownloadEnvs(get.body) :
             \E r \in {downloadLatest(files, get, env, umask)} :
                /\ pc' = readHeaderNext("checked")
                /\ upd' = [upd EXCEPT !.called = TRUE, !.url = upd.downloadUrl,
                                      !.dlGet = get, !.orig = files.exec,
                                      !.dl = [k \in DOMAIN NoDownload |-> r[k]],
                                      !.mid = downloadLatestStages(files, get, env,
                                                                   umask)]
                /\ files' = r.fs
                /\ trace' = trace \o <<"downloadLatest", "GET download",
                                       "downloadLatest returns",
                                       "AutoUpdateCheck returns">>
    /\ UNCHANGED <<h, given, un, frameVars, umask, now, prev>>

\* runtimeGoexit(): runtime.Goexit ends the goroutine; a replacement of the
\* hook (as the tests install) returns, and readHeader returns io.EOF
RuntimeGoexit ==
    /\ pc = "goexit"
    /\ \E hook \in {"runtime.Goexit", "stub"} :
        /\ pc' = IF hook = "stub" THEN "returned" ELSE "exited"
        /\ err' = IF hook = "stub" THEN "EOF" ELSE err
    /\ trace' = Append(trace, "runtimeGoexit")
    /\ UNCHANGED <<h, given, un, reader, pending, v, call, writer, files, umask, now, upd, prev>>

\* the browser starts the installed host again, later, on the same file
\* system (a replaced executable is another program)
Restart ==
    /\ pc \in Terminal
    /\ prev.runs < MaxRuns
    /\ files.exec = Installed
    /\ \E k \in {1, TicksPerDay} :
        /\ Date(now + k) <= MaxDay
        /\ now' = now + k
    /\ pc' = "run"
    /\ prev' = [runs |-> prev.runs + 1, checked |-> upd.checked, day |-> upd.day,
                w |-> upd.w,
                fetched |-> "GET manifest" \in {trace[i] : i \in 1..Len(trace)}]
    /\ upd' = UpdIdle
    /\ trace' = <<>>
    /\ err' = "none"
    /\ call' = CallNone
    /\ UNCHANGED <<h, given, un, reader, pending, v, writer, files, umask>>

(***************************************************************************)
(* Specifications.                                                         *)
(*   SpecRT: one PostMessage into a buffer, read back with OnMessage.      *)
(*   SpecStream: a reader preloaded with frames of a peer.                 *)
(*   SpecSelect: end of input, the update check up to the selection in a  *)
(*   drawn manifest and the comparison.                                    *)
(*   SpecInit: a Host value as the caller built it, then Init.             *)
(*   SpecUninstall: an installed host on one of the three platforms, then  *)
(*   Uninstall.                                                            *)
(*   Spec: the host at end of input: update check and termination, over    *)
(*   several starts of the host on one file system.                        *)
(***************************************************************************)
InitRT ==
    /\ given \in {Caller(o, "", <<>>) : o \in {"LittleEndian", "BigEndian"}}
    /\ h = HostInit(given, Executable)
    /\ un = UnNone
    /\ pc = "run"
    /\ FrameIdle
    /\ UpdIdleInit

NextRT == PostMessage \/ NewValue \/ OnMessage

SpecRT == InitRT /\ [][NextRT]_vars

InitStream ==
    /\ given \in {Caller(o, "", <<>>) : o \in {"LittleEndian", "BigEndian"}}
    /\ h = HostInit(given, Executable)
    /\ un = UnNone
    /\ pc = "run"
    /\ pending \in {fs \o t : fs \in SeqsUpTo(RawFrames(h.ByteOrder), MaxFrames),
                              t \in {<<>>} \cup {<<p>> : p \in PartialHeaders}
                                       \cup {<<c>> : c \in CutFrames(h.ByteOrder)}}
    /\ reader = Stream(pending)
    /\ v = FreshAny
    /\ err = "none"
    /\ call = CallNone
    /\ writer = <<>>
    /\ UpdIdleInit

NextStream == NewValue \/ OnMessage

SpecStream == InitStream /\ [][NextStream]_vars

InitSelect ==
    /\ given = Caller("LittleEndian", UrlSelect, VersionText(<<1, 0, 0>>))
    /\ h = HostInit(given, Executable)
    /\ un = UnNone
    /\ pc = "run"
    /\ FrameIdle
    /\ UpdIdleInit

NextSelect == OnMessage \/ AutoUpdateCheck \/ NeedUpdateFetch

SpecSelect == InitSelect /\ [][NextSelect]_vars

\* installed or not, with or without a sidecar, on each platform; the
\* registry value exists on windows only
InitUninstall ==
    /\ given = Caller("LittleEndian", "u.xml", VersionText(<<1, 0, 0>>))
    /\ h = HostInit(given, Executable)
    /\ pc = "run"
    /\ FrameIdle
    /\ files \in {[exec |-> Installed, bak |-> NoFile, chk |-> c] :
                     c \in {NoFile, File(FormatInt(TicksPerDay), Perm.chk)}}
    /\ umask = 18
    /\ now = TicksPerDay
    /\ upd = UpdIdle
    /\ trace = <<>>
    /\ prev = PrevNone
    /\ un \in {[UnNone EXCEPT !.goos = g, !.manifest = m, !.value = x] :
                  g \in Platforms, m \in {NoFile, ManifestFile}, x \in BOOLEAN}
    /\ un.value => un.goos = "windows"

NextUninstall == Uninstall

SpecUninstall == InitUninstall /\ [][NextUninstall]_vars

\* the caller has built its Host value and has not called Init yet
InitInit ==
    /\ given \in Callers
    /\ h = given
    /\ un = UnNone
    /\ pc = "new"
    /\ FrameIdle
    /\ UpdIdleInit

NextInit == HostInitCall

SpecInit == InitInit /\ [][NextInit]_vars

Init ==
    /\ given \in HostCallers
    /\ h = HostInit(given, Executable)
    /\ un = UnNone
    /\ pc = "run"
    /\ FrameIdle
    /\ files \in {[exec |-> Installed, bak |-> NoFile, chk |-> c] :
                     c \in IF h.AutoUpdate THEN Sidecars ELSE {NoFile}}
    /\ umask \in Umasks
    /\ now = TicksPerDay
    /\ upd = UpdIdle
    /\ trace = <<>>
    /\ prev = PrevNone

Next ==
    \/ OnMessage
    \/ AutoUpdateCheck
    \/ NeedUpdateFetch
    \/ DownloadLatest
    \/ RuntimeGoexit
    \/ Restart

Spec == Init /\ [][Next]_vars

(***************************************************************************)
(* Properties.                                                             *)
(***************************************************************************)
\* how often event e occurs in the trace of the current run, and where
Occurrences(e) == Cardinality({i \in 1..Len(trace) : trace[i] = e})
IndexOf(e) == CHOOSE i \in 1..Len(trace) : trace[i] = e

\* the Write calls of the last PostMessage took every byte handed to them
PostedWhole ==
    /\ Len(writer) = 2
    /\ \A i \in 1..2 : writer[i].err = "nil" /\ writer[i].n = Len(writer[i].buf)

\* the first OnMessage call read what PostMessage wrote into a fresh value
\* of a type that holds it: an interface{}, or an H for a JSON object
ReadBack ==
    /\ call.n = 1
    /\ call.frame.kind = "posted"
    /\ PostedWhole
    /\ \/ call.before = FreshAny
       \/ call.before = FreshH /\ call.frame.val.t = "obj"

\* C1: for every serializable value and either byte order, OnMessage on the
\* bytes PostMessage wrote returns no error and leaves in v a value equal
\* to the posted one, with nothing left in the reader.
C1_RoundTrip ==
    ReadBack => err = "nil" /\ v.val = call.frame.val /\ reader = <<>>

C1_Witness ==
    /\ ReadBack
    /\ h.ByteOrder = "BigEndian"
    /\ call.before = FreshH
    /\ call.frame.val = JObj((KeyA :> JStr(<<Ch.space, Ch.rbrace>>)) @@ (KeyB :> JNum(7)))
    /\ v.val = call.frame.val
    /\ err = "nil"

\* C2: every successful OnMessage call that starts at the header of a frame
\* of declared length L > 0 consumes exactly 4 + L bytes, however the reader
\* cuts its reads and whatever follows the JSON value inside the frame, so
\* that the next call starts at the next frame's header.
C2_ConsumesWholeFrame ==
    (/\ call.n > 0
     /\ call.aligned
     /\ err = "nil"
     /\ call.frame.kind \in {"exact", "trail"}
     /\ Len(call.frame.body) > 0)
        => /\ call.consumed = 4 + Len(call.frame.body)
           /\ reader = Stream(pending)

C4_GoexitAlwaysReached ==
    pc \in Terminal => Occurrences("runtimeGoexit") = 1

\* C5: when the manifest GET fails or the manifest does not decode, the
\* downloader is not invoked and AutoUpdateCheck returns to readHeader,
\* which goes on to runtimeGoexit: the process neither exits nor panics.
C5_FetchErrorsReturn ==
    upd.get.kind \in {"error", "malformed"}
        => /\ pc \in {"goexit", "exited", "returned"}
           /\ Occurrences("AutoUpdateCheck returns") = 1
           /\ ~upd.called

\* the manifest GET was issued in the current run
Fetched == Occurrences("GET manifest") > 0

\* the previous run and this one both entered needUpdate, the previous one
\* issued the manifest GET
RanTwice == upd.checked /\ prev.checked /\ prev.fetched

\* C6, as stated: of two runs of the check within one local calendar day
\* only the first issues the manifest GET; a run on a later day issues it
\* again.
C6_DailyGateAlways ==
    /\ RanTwice /\ prev.day = upd.day => ~Fetched /\ upd.gate = "return"
    /\ RanTwice /\ prev.day < upd.day
            => upd.gate = "fetch" /\ (pc # "fetch" => Fetched)

\* C6, amended: of two runs of the check within one local calendar day the
\* second skips everything after the sidecar read (no write, no GET) when
\* the first run's sidecar write succeeded; a run on a later day passes the
\* gate and issues the manifest GET again.
C6_DailyGate ==
    /\ RanTwice /\ prev.day = upd.day /\ prev.w = "ok"
            => ~Fetched /\ upd.gate = "return" /\ upd.w = "none"
               /\ Occurrences("writeCheckTimestamp") = 0
    /\ RanTwice /\ prev.day < upd.day
            => upd.gate = "fetch" /\ (pc # "fetch" => Fetched)

C6_Witness ==
    /\ RanTwice
    /\ prev.day = upd.day
    /\ prev.w = "ok"
    /\ upd.gate = "return"
    /\ pc = "exited"
    /\ ~Fetched

\* the check of the current run was not skipped by the daily gate
GateOpen == upd.checked /\ upd.gate # "return"

\* C7, as stated: in a check the gate did not skip, whatever happens after
\* the sidecar write, the sidecar holds the timestamp of this check.
C7_TimestampAlwaysWritten ==
    GateOpen => getCheckTimestamp(files) = now

\* C7, amended: in a check the gate did not skip, the sidecar write is
\* attempted before the manifest GET is issued; when the write succeeded,
\* the sidecar holds the timestamp of this check whatever happens
\* afterwards; a failed write is logged and the check goes on.
C7_TimestampBeforeFetch ==
    /\ GateOpen => Occurrences("writeCheckTimestamp") = 1
    /\ Fetched => IndexOf("writeCheckTimestamp") < IndexOf("GET manifest")
    /\ GateOpen /\ upd.w = "ok"
            => getCheckTimestamp(files) = now /\ isCheckedToday(files, now)

C7_Witness ==
    /\ GateOpen
    /\ upd.w = "ok"
    /\ pc = "fatal"
    /\ upd.get.kind = "error"
    /\ getCheckTimestamp(files) = now

\* semantic-version precedence on the numbers of two versions
Padded(n) == [i \in 1..3 |-> IF i <= Len(n) THEN n[i] ELSE 0]
Precedes(a, b) ==
    \E i \in 1..3 : /\ Padded(a)[i] < Padded(b)[i]
                    /\ \A j \in 1..(i - 1) : Padded(a)[j] = Padded(b)[j]
Older ==
    {<<VersionText(p[1]), VersionText(p[2])>> :
        p \in {q \in LocalVersions \X RemoteVersions : Precedes(q[1], q[2])}}

\* C8: in a check that reaches the comparison, the update is needed, and
\* the downloader invoked, exactly when the local version precedes the
\* remote one; the downloader is given the URL the manifest holds for this
\* host.
C8_DownloadIffOlder ==
    upd.compared
        => /\ upd.needed <=> (<<h.Version, upd.get.want.version>> \in Older)
           /\ pc # "download" => (upd.called <=> upd.needed)
           /\ pc = "download" => upd.needed
           /\ upd.called => upd.url = upd.get.want.url

C8_Witness ==
    /\ upd.compared
    /\ upd.called
    /\ h.Version = VersionText(<<1, 0, 1>>)
    /\ upd.get.want.version = VersionText(<<2, 9>>)
    /\ upd.url = "u.linux"

\* downloadLatest returned an error to AutoUpdateCheck
DownloadFailed == upd.called /\ upd.dlGet.kind = "resp" /\ upd.dl.err # <<>>

\* C9, as stated: whenever downloadLatest returns an error, the executable
\* exists and holds the complete original content.
C9_OriginalOnAnyError ==
    DownloadFailed
        => files.exec.exists /\ files.exec.content = upd.orig.content

\* C9, amended: whenever downloadLatest returns an error and no rollback
\* rename failed, the executable is the original one, content and mode, and
\* no backup is left; when the rollback rename failed the original is the
\* backup and the error reports both failures.
C9_RollbackRestores ==
    /\ DownloadFailed /\ upd.dl.calls.rollback # "failed"
            => files.exec = upd.orig /\ files.exec.exists /\ ~files.bak.exists
    /\ DownloadFailed /\ upd.dl.calls.rollback = "failed"
            => files.bak = upd.orig /\ Len(upd.dl.err) = 2

C9_Witness ==
    /\ DownloadFailed
    /\ upd.dl.err = <<"copy">>
    /\ upd.dl.calls.rollback = "ok"
    /\ upd.dl.renamed = 2
    /\ files.exec = upd.orig

\* C11: when the GET brings a status other than OK (404, or 204 which is
\* 2xx but not OK), downloadLatest returns an error having made no rename,
\* no open and no copy; the executable is as it was and there is no backup.
C11_NonOkTouchesNothing ==
    upd.called /\ upd.dlGet.kind = "resp" /\ upd.dlGet.status # Http.StatusOK
        => /\ upd.dl.err = <<"status">>
           /\ upd.dl.renamed = 0 /\ ~upd.dl.opened /\ ~upd.dl.copied
           /\ upd.dl.calls = NoCalls
           /\ files.exec = upd.orig /\ files.exec = Installed
           /\ files.bak = NoFile

C11_Witness ==
    /\ upd.called
    /\ upd.dlGet.kind = "resp"
    /\ upd.dlGet.status = Http.StatusNoContent
    /\ upd.dl.err = <<"status">>
    /\ files.exec = Installed
    /\ pc = "goexit"

\* C12: when the GET of the download URL itself fails, downloadLatest
\* returns an error to AutoUpdateCheck (which then returns too), with no
\* backup taken and no file touched.
C12_GetErrorIsReturned ==
    upd.called /\ upd.dlGet.kind = "error"
        => /\ pc \in {"goexit", "exited", "returned"}
           /\ Occurrences("downloadLatest returns") = 1
           /\ upd.dl.err # <<>>
           /\ files.exec = upd.orig
           /\ files.bak = NoFile

\* C13: when the backup rename fails, downloadLatest returns that error at
\* once: one rename attempt, no rollback rename, no open, no copy; the
\* executable stays where it was.
C13_BackupFailureReturnsAtOnce ==
    upd.called /\ upd.dl.calls.rename = "failed"
        => /\ upd.dl.err = <<"rename">>
           /\ upd.dl.renamed = 1
           /\ upd.dl.calls.rollback = "none"
           /\ ~upd.dl.opened /\ upd.dl.calls.open = "none"
           /\ ~upd.dl.copied /\ upd.dl.calls.copy = "none"
           /\ files.exec = upd.orig
           /\ files.bak = NoFile

C13_Witness ==
    /\ upd.called
    /\ upd.dlGet.kind = "resp"
    /\ upd.dlGet.status = Http.StatusOK
    /\ upd.dl.calls.rename = "failed"
    /\ upd.dl.renamed = 1
    /\ upd.dl.err = <<"rename">>

\* C14: when the open of the executable path fails after the backup rename
\* went through, downloadLatest makes two rename attempts (backup, rollback)
\* and no copy; when the rollback succeeds it returns the open error alone
\* and the original is back at the executable path.
C14_OpenFailureRollsBack ==
    upd.called /\ upd.dl.calls.open = "failed"
        => /\ upd.dl.calls.rename = "ok"
           /\ upd.dl.renamed = 2
           /\ upd.dl.calls.rollback \in {"ok", "failed"}
           /\ ~upd.dl.copied /\ upd.dl.calls.copy = "none"
           /\ upd.dl.calls.remove = "none"
           /\ upd.dl.calls.rollback = "ok"
                => /\ upd.dl.err = <<"open">>
                   /\ files.exec = upd.orig
                   /\ files.bak = NoFile

C14_Witness ==
    /\ upd.called
    /\ upd.dl.calls.open = "failed"
    /\ upd.dl.calls.rollback = "ok"
    /\ upd.dl.renamed = 2
    /\ upd.dl.err = <<"open">>
    /\ files.exec = Installed

\* C15: when the copy of the response body into the opened executable
\* fails, downloadLatest makes two rename attempts (backup, rollback); when
\* the rollback succeeds it returns the copy error alone and the executable
\* path holds the original, not the partially written file.
C15_CopyFailureRollsBack ==
    upd.called /\ upd.dl.calls.copy = "failed"
        => /\ upd.dl.calls.rename = "ok" /\ upd.dl.calls.open = "ok"
           /\ upd.dl.opened /\ upd.dl.copied
           /\ upd.dl.renamed = 2
           /\ upd.dl.calls.rollback \in {"ok", "failed"}
           /\ upd.dl.calls.remove = "none"
           /\ upd.dl.calls.rollback = "ok"
                => /\ upd.dl.err = <<"copy">>
                   /\ files.exec = upd.orig
                   /\ files.exec.content = TextOld
                   /\ files.bak = NoFile

C15_Witness ==
    /\ upd.called
    /\ upd.dl.calls.copy = "failed"
    /\ upd.dl.calls.rollback = "ok"
    /\ upd.dl.copied
    /\ upd.dl.err = <<"copy">>
    /\ files.exec.content = TextOld
    /\ ~files.bak.exists

\* C16: when the rollback rename fails, on the open path or on the copy
\* path, downloadLatest returns one error that carries the cause (the open
\* or the copy error) and the rollback failure, after two rename attempts.
C16_CombinedError ==
    upd.called /\ upd.dl.calls.rollback = "failed"
        => /\ upd.dl.renamed = 2
           /\ Len(upd.dl.err) = 2
           /\ upd.dl.err[1] = (IF upd.dl.calls.open = "failed" THEN "open" ELSE "copy")
           /\ upd.dl.err[2] = "rollback"
           /\ upd.dl.calls.open = "failed" \/ upd.dl.calls.copy = "failed"

C16_Witness ==
    /\ upd.called
    /\ upd.dl.calls.rollback = "failed"
    /\ upd.dl.calls.open = "failed"
    /\ upd.dl.err = <<"open", "rollback">>
    /\ upd.dl.renamed = 2
    /\ pc = "goexit"

\* downloadLatest has returned to AutoUpdateCheck
DownloadReturned == upd.called /\ upd.dlGet.kind = "resp"

\* C17, as stated: after downloadLatest has returned, the backup exists
\* only if the call failed and its rollback rename failed too.
C17_BackupOnlyAfterFailedRollback ==
    DownloadReturned /\ files.bak.exists
        => upd.dl.err # <<>> /\ upd.dl.calls.rollback = "failed"

\* C17, amended: after downloadLatest has returned, the backup exists
\* exactly when the rollback rename failed or when, after a successful
\* replacement, the deletion of the backup failed; it then holds the
\* original executable.  After a successful rollback, and after a
\* replacement whose backup was deleted, no backup is left.
C17_BackupTransient ==
    DownloadReturned
        => /\ files.bak.exists <=> (\/ upd.dl.calls.rollback = "failed"
                                     \/ upd.dl.calls.remove = "failed")
           /\ files.bak.exists => files.bak = upd.orig
           /\ upd.dl.calls.rollback = "ok" => files.bak = NoFile
           /\ upd.dl.calls.remove = "ok" => files.bak = NoFile

C17_Witness ==
    /\ DownloadReturned
    /\ upd.dl.calls.copy = "failed"
    /\ upd.dl.calls.rollback = "failed"
    /\ files.bak = Installed
    /\ files.exec.exists

\* C18: when the deletion of the backup fails after the copy went through,
\* downloadLatest still returns no error, and the executable path holds the
\* whole response body.
C18_RemoveFailureNotPropagated ==
    DownloadReturned /\ upd.dl.calls.remove = "failed"
        => /\ upd.dl.err = <<>>
           /\ upd.dl.calls.copy = "ok"
           /\ upd.dl.calls.rollback = "none"
           /\ files.exec.exists
           /\ files.exec.content = upd.dlGet.body
           /\ Occurrences("downloadLatest returns") = 1

C18_Witness ==
    /\ DownloadReturned
    /\ upd.dl.calls.remove = "failed"
    /\ upd.dl.err = <<>>
    /\ files.exec.content = TextOK
    /\ files.bak = Installed

\* C19: whatever failure the downloader meets (GET error, status other than
\* OK, rename, open or copy failure), AutoUpdateCheck returns to readHeader:
\* the process is not ended by the failure.
C19_DownloadFailuresOnlyLogged ==
    upd.called /\ (upd.dlGet.kind = "error" \/ upd.dl.err # <<>>)
        => /\ Occurrences("AutoUpdateCheck returns") = 1
           /\ Occurrences("logFatalf") = 0
           /\ pc \in {"goexit", "exited", "returned"}

\* the first index of seq whose element has tag (got by Tag) equal to want
FirstWith(seq, Tag(_), want) ==
    {i \in 1..Len(seq) : Tag(seq[i]) = want /\ \A j \in 1..(i - 1) : Tag(seq[j]) # want}

\* C20: within the selected application (the first of the configured name),
\* whenever some update record carries the running platform, the url and
\* version selected are those of the first such record in document order.
C20_FirstPlatformMatch ==
    upd.get.kind = "doc"
        => \A a \in FirstWith(upd.get.doc.Apps, getAppId, h.AppName) :
           \A u \in FirstWith(upd.get.doc.Apps[a].Updates, getGoos, GOOS) :
              upd.sel = [url |-> getUrl(upd.get.doc.Apps[a].Updates[u]),
                         version |-> getVersion(upd.get.doc.Apps[a].Updates[u])]

\* C21: within the selected application, when no update record carries the
\* running platform, the url and version selected are those of the first
\* record in document order, whatever its tag; an application without
\* records gives the empty url and version.
C21_PlatformFallback ==
    upd.get.kind = "doc"
        => \A a \in FirstWith(upd.get.doc.Apps, getAppId, h.AppName) :
              LET us == upd.get.doc.Apps[a].Updates
              IN FirstWith(us, getGoos, GOOS) = {}
                    => upd.sel = IF us = <<>>
                                 THEN [url |-> "", version |-> <<>>]
                                 ELSE [url |-> getUrl(us[1]),
                                       version |-> getVersion(us[1])]

C21_Witness ==
    /\ upd.get.kind = "doc"
    /\ Len(upd.get.doc.Apps) = 2
    /\ upd.get.doc.Apps[2].Updates =
            <<Update(Ptr("darwin"), Ptr("u.a"), Ptr(VersionText(<<1, 0, 0>>))),
              Update(Nil, Ptr("u.b"), Ptr(VersionText(<<2, 9>>)))>>
    /\ upd.sel = [url |-> "u.a", version |-> VersionText(<<1, 0, 0>>)]

\* C22: when no application of the manifest has exactly the configured
\* name, the lookup gives the empty url and the empty version, and
\* getDownloadUrlAndVersion returns no error (nothing is logged as an update
\* check error).
C22_NoAppIsEmptyNoError ==
    upd.get.kind = "doc" /\ FirstWith(upd.get.doc.Apps, getAppId, h.AppName) = {}
        => /\ upd.sel = [url |-> "", version |-> <<>>]
           /\ Occurrences("GET manifest") = 1
           /\ Occurrences("log: Update check error") = 0
           /\ Occurrences("logFatalf") = 0

C22_Witness ==
    /\ upd.get.kind = "doc"
    /\ upd.get.doc.Apps =
            <<App(Ptr(<<65, 80, 80>>), <<Update(Ptr(GOOS), Ptr("u.a"),
                                       Ptr(VersionText(<<1, 0, 0>>)))>>)>>
    /\ upd.sel = [url |-> "", version |-> <<>>]
    /\ Occurrences("log: Update check error") = 0

\* no update check was entered and the run has not ended
NothingTriggered == pc = "run" /\ trace = <<>> /\ upd = UpdIdle

\* C23: a frame whose header declares length zero makes OnMessage return no
\* error, leave v as it was and take exactly the four header bytes; no
\* update check and no termination is triggered.
C23_ZeroLengthFrame ==
    (call.n > 0 /\ call.aligned /\ call.frame.kind = "empty")
        => /\ err = "nil"
           /\ call.after = call.before
           /\ call.consumed = 4
           /\ reader = Stream(pending)
           /\ NothingTriggered

C23_Witness ==
    /\ call.n = 2 /\ call.aligned /\ call.frame.kind = "empty"
    /\ call.before = UsedH /\ call.after = UsedH
    /\ call.consumed = 4
    /\ Len(pending) = 1 /\ pending[1].kind = "partial"
    /\ err = "nil"

\* C24: a header read that fails otherwise than by clean end of input (the
\* source ends after 1 to 3 header bytes) is returned to the caller: the
\* update check is not invoked, the run is not ended, v is as it was.
C24_HeaderErrorNoSideEffects ==
    (call.n > 0 /\ call.aligned /\ call.frame.kind = "partial")
        => /\ err = "ErrUnexpectedEOF"
           /\ call.after = call.before
           /\ NothingTriggered
           /\ files = [exec |-> Installed, bak |-> NoFile, chk |-> NoFile]

C24_Witness ==
    /\ call.n = 2 /\ call.aligned /\ call.frame.kind = "partial"
    /\ Len(call.frame.hdr) = 3 /\ call.consumed = 3
    /\ call.before = UsedH /\ call.after = UsedH
    /\ err = "ErrUnexpectedEOF"
    /\ pc = "run"

C26_DecodeErrorSkipsFrame ==
    (/\ call.n > 0 /\ call.aligned
     /\ call.frame.kind \in {"bad", "exact", "trail"}
     /\ err \in {"SyntaxError", "ErrUnexpectedEOF", "UnmarshalTypeError"})
        => /\ call.consumed = 4 + Len(call.frame.body)
           /\ reader = Stream(pending)

\* PostMessage has just returned
Posted == call.n = 0 /\ pending # <<>> /\ pending[1].kind = "posted"

\* a Write call that took all it was given and reported no error
InFull(w) == w.err = "nil" /\ w.n = Len(w.buf)

\* C27: PostMessage writes the 4-byte header before the body, the header
\* holds, in the configured byte order, the byte length of the JSON
\* encoding, and the body is written only after the header write succeeded
\* in full: a header write that failed is followed by no body write.
C27_HeaderThenBody ==
    (Posted /\ writer # <<>>)
        => /\ writer[1].buf = PutUint32(h.ByteOrder, Len(Marshal(pending[1].val)))
           /\ Len(writer) <= 2
           /\ Len(writer) = 2
                 => InFull(writer[1]) /\ writer[2].buf = Marshal(pending[1].val)

\* C28: PostMessage returns an error whenever a write of the header or of
\* the body fails or is short, also when the writer reports no error, and
\* makes at most one Write call for the header and one for the body.
C28_ShortWriteIsError ==
    Posted
        => /\ Len(writer) <= 2
           /\ (\E i \in 1..Len(writer) : ~InFull(writer[i])) => err # "nil"

\* C29: after Init, whatever the caller put into the Host value (its
\* AutoUpdate field included), AutoUpdate is true exactly when UpdateUrl and
\* Version are both non-empty.
C29_AutoUpdateIff ==
    pc # "new" => (h.AutoUpdate <=> (h.UpdateUrl # "" /\ h.Version # <<>>))

QuietSteps == {"EOF", "AutoUpdateCheck", "AutoUpdateCheck returns", "runtimeGoexit"}

\* C31: with the auto-update flag false AutoUpdateCheck does nothing: the
\* sidecar timestamp is neither read nor written, no HTTP request is issued,
\* the executable and its backup are not touched.
C31_FlagOffDoesNothing ==
    ~h.AutoUpdate
        => /\ \A i \in 1..Len(trace) : trace[i] \in QuietSteps
           /\ upd = UpdIdle
           /\ files = [exec |-> Installed, bak |-> NoFile, chk |-> NoFile]

C31_Witness ==
    /\ ~h.AutoUpdate
    /\ h.UpdateUrl # "" /\ h.Version = <<>>
    /\ prev.runs = 2
    /\ trace = <<"EOF", "AutoUpdateCheck", "AutoUpdateCheck returns", "runtimeGoexit">>
    /\ pc = "exited"
    /\ files = [exec |-> Installed, bak |-> NoFile, chk |-> NoFile]

\* the steps of the last Uninstall call
UninstallSteps == {un.steps[i] : i \in 1..Len(un.steps)}

\* C32: Uninstall is best-effort and always ends the process: the removal of
\* the manifest descriptor, of the executable and of the sidecar (and of
\* the registry value on windows) is attempted whatever failed before,
\* failures are only logged, and the termination step is reached at the end
\* on every path.
C32_UninstallBestEffort ==
    un.called
        => /\ {"Remove manifest", "Remove exec", "Remove chk"} \subseteq UninstallSteps
           /\ un.goos = "windows" => "DeleteValue" \in UninstallSteps
           /\ un.steps[Len(un.steps)] = "runtimeGoexit"
           /\ un.ret = "none"
           /\ pc \in {"exited", "returned"}

\* C33: when the manifest decodes and yields an empty version (no
\* application of the configured name, an application without update
\* records, a selected record without version), the update check ends with
\* the no-update outcome: needUpdate returns normally and the downloader is
\* not invoked.
C33_EmptyVersionIsNoUpdate ==
    (upd.get.kind = "doc" /\ upd.sel.version = <<>>)
        => /\ pc \notin {"panic", "fatal"}
           /\ upd.compared /\ ~upd.needed
           /\ ~upd.called
           /\ Occurrences("AutoUpdateCheck returns") = 1

\* the sidecar write of this run failed
WriteFailed == upd.w \in {"openfail", "writefail"}

\* C34: a failed write of the sidecar timestamp is logged and does not
\* block the check: the manifest fetch comes next and, as after a write
\* that succeeded, the versions are compared and the downloader is called
\* when the remote one is newer.
C34_WriteFailureDoesNotBlock ==
    (WriteFailed /\ NewVersion(h.Version).ok)
        => /\ Occurrences("log: Update timestamp error") = 1
           /\ pc = "fetch" \/ Occurrences("GET manifest") = 1
           /\ (upd.get.kind = "doc" /\ NewVersion(upd.sel.version).ok)
                 => /\ upd.compared
                    /\ upd.needed <=> LessThan(NewVersion(h.Version),
                                               NewVersion(upd.sel.version))
                    /\ upd.needed => pc = "download" \/ upd.called

C34_Witness ==
    /\ upd.w = "writefail"
    /\ files.chk = File(<<>>, ClearBits(Perm.chk, umask))
    /\ upd.compared /\ upd.needed /\ upd.called
    /\ upd.dl.copied
    /\ IndexOf("log: Update timestamp error") < IndexOf("GET manifest")

\* the sidecar the check found holds no decimal number
NoTimestamp(f) == ~f.exists \/ f.content = <<>> \/ ~AllDigits(f.content)

\* C35: a missing, empty or non-numeric sidecar counts as never checked:
\* isCheckedToday is false and the check proceeds to the timestamp write, on
\* every day other than the day of the Unix epoch.
C35_NoTimestampIsNeverChecked ==
    (upd.checked /\ NoTimestamp(upd.chk) /\ upd.day # Date(0))
        => /\ upd.gate # "return"
           /\ Occurrences("writeCheckTimestamp") = 1

C35_Witness ==
    /\ upd.checked
    /\ upd.chk = File(<<49, Ch.x>>, Perm.chk)
    /\ upd.gate = "fetch"
    /\ upd.w = "ok"
    /\ files.chk = File(FormatInt(now), Perm.chk)
    /\ Occurrences("GET manifest") = 1

\* C36: a configured local version that does not parse halts the update
\* check (version.Must panics), after the sidecar timestamp write and before
\* any manifest fetch: the run issues no HTTP request and leaves the
\* executable alone.
C36_BadLocalVersionHalts ==
    (GateOpen /\ ~NewVersion(h.Version).ok)
        => /\ pc = "panic"
           /\ Occurrences("writeCheckTimestamp") = 1
           /\ IndexOf("writeCheckTimestamp") < IndexOf("panic")
           /\ upd.w = "ok" => getCheckTimestamp(files) = now
           /\ Occurrences("GET manifest") = 0 /\ Occurrences("GET download") = 0
           /\ upd.get.kind = "none" /\ ~upd.called
           /\ files.exec = Installed /\ ~files.bak.exists
           /\ Occurrences("runtimeGoexit") = 0

C36_Witness ==
    /\ h.Version = BadVersion
    /\ GateOpen
    /\ pc = "panic"
    /\ upd.w = "ok"
    /\ files.chk = File(FormatInt(now), ClearBits(Perm.chk, umask))
    /\ trace = <<"EOF", "AutoUpdateCheck", "isCheckedToday", "writeCheckTimestamp",
                 "panic">>

\* the texts a sequence of update records holds under Get, or the empty
\* text when there is no record
UrlsOf(us) == IF us = <<>> THEN {""} ELSE {getUrl(us[i]) : i \in 1..Len(us)}
VersionsOf(us) == IF us = <<>> THEN {<<>>} ELSE {getVersion(us[i]) : i \in 1..Len(us)}

\* C37: the lookup uses the first application, in document order, whose
\* identifier equals the configured name, and no later one of the same
\* identifier, also when the first one gives an empty url or version.
C37_FirstAppWins ==
    upd.get.kind = "doc"
        => \A a \in FirstWith(upd.get.doc.Apps, getAppId, h.AppName) :
              /\ upd.sel = getUrlAndVersion(upd.get.doc.Apps[a])
              /\ upd.sel.url \in UrlsOf(upd.get.doc.Apps[a].Updates)
              /\ upd.sel.version \in VersionsOf(upd.get.doc.Apps[a].Updates)

C37_Witness ==
    /\ upd.get.kind = "doc"
    /\ upd.get.doc.Apps =
            <<App(Ptr(AppName), <<Update(Ptr(GOOS), Ptr("u.a"), Nil)>>),
              App(Ptr(AppName), <<LateRecord>>)>>
    /\ upd.sel = [url |-> "u.a", version |-> <<>>]

\* C38: the url and the version the lookup returns come from one and the
\* same update record, never the url of one paired with the version of
\* another, also when the record of the platform lacks one of them and the
\* first record is used instead.
C38_UrlAndVersionOfOneRecord ==
    upd.get.kind = "doc"
        => \A a \in FirstWith(upd.get.doc.Apps, getAppId, h.AppName) :
              LET us == upd.get.doc.Apps[a].Updates
              IN us # <<>>
                    => \E i \in 1..Len(us) :
                          upd.sel = [url |-> getUrl(us[i]),
                                     version |-> getVersion(us[i])]

C38_Witness ==
    /\ upd.get.kind = "doc"
    /\ Len(upd.get.doc.Apps) = 2
    /\ upd.get.doc.Apps[2].Updates =
            <<Update(Ptr("darwin"), Ptr("u.a"), Ptr(VersionText(<<1, 0, 0>>))),
              Update(Ptr(GOOS), Nil, Ptr(VersionText(<<2, 9>>)))>>
    /\ upd.sel = [url |-> "u.a", version |-> VersionText(<<1, 0, 0>>)]

\* the file f holds the bytes the executable had when the downloader began
HoldsOriginal(f) == f.exists /\ f.content = upd.orig.content

\* C39: the original bytes of the executable are never lost during a
\* replacement: in every state downloadLatest passes through, from the
\* backup rename until the copy has completed, the whole original content
\* is at the executable path or at the backup path, whichever of the
\* rename, the open, the copy and the rollback fails.
C39_OriginalNeverLost ==
    upd.called
        => \A i \in 1..Len(upd.mid) :
              HoldsOriginal(upd.mid[i].exec) \/ HoldsOriginal(upd.mid[i].bak)

C39_Witness ==
    /\ upd.called
    /\ upd.dl.calls.copy = "failed" /\ upd.dl.calls.rollback = "failed"
    /\ Len(upd.mid) = 4
    /\ upd.mid[3].exec.content = <<TextOK[1]>>
    /\ HoldsOriginal(upd.mid[3].bak)
    /\ HoldsOriginal(files.bak) /\ ~HoldsOriginal(files.exec)

\* C40: only the end of the source at a header is the end of input: when
\* the source ends after a whole header of length L > 0 and before or
\* inside the body, OnMessage returns an error to its caller and neither
\* the update check nor the termination is entered.
C40_CutBodyIsError ==
    (call.n > 0 /\ call.aligned /\ call.frame.kind = "cut")
        => /\ err \notin {"nil", "none"}
           /\ call.after = call.before
           /\ NothingTriggered

\* the GET brought status OK and the backup rename, the open and the copy
\* of downloadLatest succeeded
DownloadWentThrough ==
    /\ upd.called
    /\ upd.dlGet.kind = "resp"
    /\ upd.dlGet.status = Http.StatusOK
    /\ upd.dl.calls.rename = "ok"
    /\ upd.dl.calls.open = "ok"
    /\ upd.dl.calls.copy = "ok"

====
